---- MODULE Spec2Model ----
(***************************************************************************)
(* State-machine model of the AI website generator (src/index.tsx): the    *)
(* asset pipeline (generateWebsite and its stages), the document held in   *)
(* the two editors, the undo/redo history, the preview and the auto-save   *)
(* to local storage.  Each action is one handler or one resumption of an   *)
(* async function after an await, with everything it runs synchronously.   *)
(***************************************************************************)
EXTENDS Integers, Sequences, FiniteSets, TLC

\* ------------------------------------------------------------------ bounds
\* Longest imagePrompts list a structured response carries.
MaxPrompts == 2
\* Longest history the preview-refresh button is allowed to build.
MaxHist == 3
\* Number of generation runs in one behaviour.
MaxRuns == 2
\* Number of times the user types into an editor in one behaviour.
MaxEdits == 2
\* Value at which the count of editor changes since the last save saturates.
MaxBurst == 3
\* Number of page reloads in one behaviour.
MaxReloads == 1

\* ------------------------------------------------------------------ values
\* An absent element or attribute of a parsed document, and JS null.
Absent == "<absent>"
\* A missing/empty string (undefined and '' are both falsy).
NoText == ""

DataPrefix == "data:image/jpeg;base64,"
FailedUrl == "https://via.placeholder.com/1280x720.png?text=Image+Generation+Failed"

\* latestFavicon = null
NoFavicon == [url |-> Absent, prompt |-> Absent]

\* Call states of one collaborator call.
Settled == {"ok", "failed"}

\* The i-th imagePrompts item the text model can return.
PromptItem(i) ==
    CASE i = 1 -> [id |-> "hero-image", prompt |-> "fresh bread display"]
      [] i = 2 -> [id |-> "menu-image", prompt |-> "pastry counter"]
      [] i = 3 -> [id |-> "team-image", prompt |-> "bakers at work"]
      [] OTHER -> [id |-> "shop-image", prompt |-> "shop front"]

\* The text the refinement call answers with (response.text.trim()).
RefinedText(prompt) == "refined: " \o prompt

\* The payload of a rendered image, as the data reference built from it.
DataUrl(prompt) == DataPrefix \o "img(" \o prompt \o ")"
IsDataUrl(url) ==
    /\ Len(url) >= Len(DataPrefix)
    /\ SubSeq(url, 1, Len(DataPrefix)) = DataPrefix
FaviconUrl(prompt) == DataPrefix \o "icon(" \o prompt \o ")"

\* ------------------------------------------------------------------ markup
\* A piece of markup: the style elements in document order (head ones
\* first), the description/keywords meta contents, the icon link's href and
\* the elements that carry an id, with their src.  descs, kws and icons
\* count the description metas, keywords metas and icon links; desc, kw and
\* icon belong to the first of each.  blank marks the empty string, which
\* parses to an empty document but is falsy as text.
BlankHtml ==
    [blank |-> TRUE, styles |-> <<>>, desc |-> Absent, kw |-> Absent,
     icon |-> Absent, descs |-> 0, kws |-> 0, icons |-> 0, imgs |-> <<>>]

\* DOMParser.parseFromString(html, 'text/html') followed, after the edits, by
\* documentElement.outerHTML: the result is never the empty string.
ParseHtml(html) == [html EXCEPT !.blank = FALSE]

\* Markup the text model returns: one head style block and two placeholders.
HtmlA ==
    [blank |-> FALSE,
     styles |-> << [loc |-> "head", css |-> "body{margin:0}"] >>,
     desc |-> Absent, kw |-> Absent, icon |-> Absent,
     descs |-> 0, kws |-> 0, icons |-> 0,
     imgs |-> << [id |-> "hero-image", src |-> NoText],
                 [id |-> "menu-image", src |-> NoText] >>]

\* Markup with a head and a body style block, existing meta and icon
\* elements, a duplicated id and no element for hero-image.
HtmlB ==
    [blank |-> FALSE,
     styles |-> << [loc |-> "head", css |-> "h1{color:red}"],
                   [loc |-> "body", css |-> "p{margin:1em}"] >>,
     desc |-> "old description", kw |-> Absent, icon |-> "old.ico",
     descs |-> 1, kws |-> 0, icons |-> 1,
     imgs |-> << [id |-> "menu-image", src |-> NoText],
                 [id |-> "menu-image", src |-> "keep.png"] >>]

\* First n items of the prompt list, in order.
FirstPrompts(n) == [i \in 1..n |-> PromptItem(i)]
\* The same items, last first.
RevPrompts(n) == [i \in 1..n |-> PromptItem(n + 1 - i)]

\* JSON.parse(response.text) of a conforming reply.
ResponseA(n) ==
    [htmlContent |-> HtmlA, imagePrompts |-> FirstPrompts(n),
     metaDescription |-> "a bakery", metaKeywords |-> "bread,cake",
     faviconPrompt |-> "blue hexagon"]
ResponseB(n) ==
    [htmlContent |-> HtmlB, imagePrompts |-> RevPrompts(n),
     metaDescription |-> NoText, metaKeywords |-> NoText,
     faviconPrompt |-> NoText]
Responses == {ResponseA(MaxPrompts), ResponseA(0), ResponseB(MaxPrompts - 1)}

\* What the user types into the editors.
UserHtml == {BlankHtml, [HtmlA EXCEPT !.styles = <<>>, !.imgs = <<>>]}
UserCss == {"h2{color:blue}"}

\* ------------------------------------------------------------------ resolver
\* doc.getElementById(id): index of the first element with that id, 0 if none.
FirstWithId(imgs, id) ==
    IF \E i \in 1..Len(imgs) : imgs[i].id = id
    THEN CHOOSE i \in 1..Len(imgs) :
            /\ imgs[i].id = id
            /\ \A j \in 1..(i - 1) : imgs[j].id # id
    ELSE 0

\* Variant: an element is created for an id that has none.
SetImageSrcOrAppend(imgs, id, url) ==
    LET i == FirstWithId(imgs, id)
    IN  IF i = 0 THEN Append(imgs, [id |-> id, src |-> url])
        ELSE [imgs EXCEPT ![i].src = url]

\* if (imgElement) imgElement.src = url
SetImageSrc(imgs, id, url) ==
    LET i == FirstWithId(imgs, id)
    IN  IF i = 0 THEN imgs ELSE [imgs EXCEPT ![i].src = url]

\* latestGeneratedImages.forEach(image => ...), in list order.
RECURSIVE InjectImages(_, _)
InjectImages(imgs, images) ==
    IF images = <<>> THEN imgs
    ELSE InjectImages(SetImageSrc(imgs, Head(images).id, Head(images).url),
                      Tail(images))

\* doc.head.querySelectorAll('style').forEach(s => s.remove())
RemoveHeadStyles(styles) == SelectSeq(styles, LAMBDA s : s.loc # "head")

\* updatePreview(html, css): the srcdoc written to the preview frame.
UpdatePreview(html, css, images, favicon) ==
    LET doc == ParseHtml(html)
    IN  [doc EXCEPT
           !.styles = << [loc |-> "head", css |-> css] >>
                        \o RemoveHeadStyles(doc.styles),
           !.imgs = InjectImages(doc.imgs, images),
           !.icon = IF favicon # NoFavicon /\ doc.icon # Absent
                    THEN favicon.url ELSE doc.icon]

\* Variant: the element is created whether or not one exists.
FindOrCreateAlways(n, wanted) == IF wanted THEN n + 1 ELSE n

\* let el = doc.querySelector(...); if (!el) { el = doc.createElement(...);
\* doc.head.appendChild(el) }: the number of such elements afterwards.
FindOrCreate(n, wanted) == IF wanted /\ n = 0 THEN 1 ELSE n

\* populateUI: meta and favicon injection, then the first style block is
\* taken out as the CSS; gives the two editor texts.
SplitDocument(html, metaDesc, metaKeywords, favicon) ==
    LET doc == ParseHtml(html)
        withMeta == [doc EXCEPT
                       !.desc = IF metaDesc # NoText THEN metaDesc ELSE doc.desc,
                       !.kw = IF metaKeywords # NoText THEN metaKeywords ELSE doc.kw,
                       !.icon = IF favicon # NoFavicon THEN favicon.url ELSE doc.icon,
                       !.descs = FindOrCreate(doc.descs, metaDesc # NoText),
                       !.kws = FindOrCreate(doc.kws, metaKeywords # NoText),
                       !.icons = FindOrCreate(doc.icons, favicon # NoFavicon)]
    IN  [html |-> [withMeta EXCEPT
                     !.styles = IF withMeta.styles = <<>> THEN <<>>
                                ELSE Tail(withMeta.styles)],
         css |-> IF withMeta.styles = <<>> THEN NoText
                 ELSE Head(withMeta.styles).css]

\* ------------------------------------------------------------------ export
LowerChars == "abcdefghijklmnopqrstuvwxyz"
UpperChars == "ABCDEFGHIJKLMNOPQRSTUVWXYZ"
DigitChars == "0123456789"
CharIn(c, str) == \E i \in 1..Len(str) : SubSeq(str, i, i) = c

\* One character of id.replace(/[^a-z0-9]/gi, '_').toLowerCase().
SafeChar(c) ==
    IF CharIn(c, LowerChars) \/ CharIn(c, DigitChars) THEN c
    ELSE IF CharIn(c, UpperChars)
         THEN LET i == CHOOSE k \in 1..Len(UpperChars) :
                           SubSeq(UpperChars, k, k) = c
              IN  SubSeq(LowerChars, i, i)
         ELSE "_"

\* safeId = image.id.replace(/[^a-z0-9]/gi, '_').toLowerCase()
RECURSIVE SafeId(_)
SafeId(id) ==
    IF Len(id) = 0 THEN ""
    ELSE SafeChar(SubSeq(id, 1, 1)) \o SafeId(SubSeq(id, 2, Len(id)))

\* `images/${safeId}.jpeg`, the path of an image inside the archive.
ExportPath(id) == "images/" \o SafeId(id) \o ".jpeg"
FaviconPath == "images/favicon.jpeg"

\* new JSZip() with its images folder: no index.html, no files.
NoZip == [indexHtml |-> BlankHtml, images |-> {}]

\* Variant: adding a file empties the folder first.
ZipFileAlone(z, path, payload) ==
    [z EXCEPT !.images = {[path |-> path, payload |-> payload]}]

\* imagesFolder.file(filename, blob): a file of the same name is replaced.
ZipFile(z, path, payload) ==
    [z EXCEPT !.images = {f \in z.images : f.path # path}
                           \cup {[path |-> path, payload |-> payload]}]

\* Variant: export is refused only when both the markup and the list are empty.
ExportRefusedBoth(html, images) == html.blank /\ Len(images) = 0

\* if (!htmlValue || latestGeneratedImages.length === 0)
ExportRefused(html, images) == html.blank \/ Len(images) = 0

\* The loop of the export handler from position i on: the index of the next
\* image whose id has an element in the document, 0 when there is none.
NextWithElement(d, images, i) ==
    IF \E j \in (i + 1)..Len(images) : FirstWithId(d.imgs, images[j].id) # 0
    THEN CHOOSE j \in (i + 1)..Len(images) :
            /\ FirstWithId(d.imgs, images[j].id) # 0
            /\ \A k \in (i + 1)..(j - 1) :
                  FirstWithId(d.imgs, images[k].id) = 0
    ELSE 0

\* The head styles are replaced by one style with the CSS editor's text,
\* and the document is added as index.html; generateAsync is awaited.
ExportFinish(d, z, images, favicon, css) ==
    LET final == [d EXCEPT !.styles = << [loc |-> "head", css |-> css] >>
                                        \o RemoveHeadStyles(d.styles)]
    IN  [pc |-> "zip", idx |-> Len(images), doc |-> final, favicon |-> favicon,
         zip |-> [z EXCEPT !.indexHtml = final]]

\* The export handler from loop position i up to its next await: the fetch
\* of the next image that has an element, else the fetch of the favicon
\* when there are a favicon and an icon link, else generateAsync.
ExportContinue(d, z, images, i, favicon, css) ==
    LET j == NextWithElement(d, images, i)
    IN  IF j # 0
        THEN [pc |-> "image", idx |-> j,
              doc |-> [d EXCEPT !.imgs = SetImageSrc(d.imgs, images[j].id,
                                                     ExportPath(images[j].id))],
              favicon |-> NoFavicon, zip |-> z]
        ELSE IF favicon # NoFavicon /\ d.icon # Absent
             THEN [pc |-> "favicon", idx |-> Len(images),
                   doc |-> [d EXCEPT !.icon = FaviconPath],
                   favicon |-> favicon, zip |-> z]
             ELSE ExportFinish(d, z, images, favicon, css)

\* ------------------------------------------------------------------ history
\* Variant: the redo branch is never sliced off.
SliceFutureKeepAll(h, idx) == h

\* history.slice(0, historyIndex + 1) when the cursor is not at the end.
SliceFuture(h, idx) ==
    IF idx < Len(h) - 1 THEN SubSeq(h, 1, idx + 1) ELSE h

\* Variant: the cursor is advanced by one instead of set to the last index.
PushHistoryStateStepCursor(h, idx, html, css) ==
    LET kept == IF idx < Len(h) - 1 THEN SubSeq(h, 1, idx + 1) ELSE h
    IN  [history |-> Append(kept, [html |-> html, css |-> css]),
         historyIndex |-> idx + 1]

\* pushHistoryState(html, css): the new sequence and cursor.
PushHistoryState(h, idx, html, css) ==
    LET kept == SliceFuture(h, idx)
        pushed == Append(kept, [html |-> html, css |-> css])
    IN  [history |-> pushed, historyIndex |-> Len(pushed) - 1]


\* Variant: populateUI pushes onto the history of the earlier document.
ResetHistoryKeep(h, idx, html, css) == PushHistoryState(h, idx, html, css)

\* populateUI: history = []; historyIndex = -1; pushHistoryState(html, css).
ResetHistory(h, idx, html, css) == PushHistoryState(<<>>, -1, html, css)

\* Variant: undo is allowed at the first snapshot too.
CanUndoAtFirst(idx) == idx >= 0

CanUndo(idx) == idx > 0
CanRedo(h, idx) == idx < Len(h) - 1

\* Variant: the undo button is disabled only while there is no snapshot.
UndoDisabledBelowFirst(h, idx) == idx < 0

\* updateUndoRedoButtons: the two disabled flags.
UndoDisabled(h, idx) == idx <= 0
RedoDisabled(h, idx) == idx >= Len(h) - 1

\* ------------------------------------------------------------------ pipeline
\* Variant: a failed refinement leaves the item without a prompt.
RefinementResultNoFallback(p, outcome) ==
    IF outcome = "ok" THEN [id |-> p.id, prompt |-> RefinedText(p.prompt)]
    ELSE [id |-> p.id, prompt |-> NoText]

\* The value one refinement promise resolves to: the refined item, or the
\* original item when the call failed.
RefinementResult(p, outcome) ==
    IF outcome = "ok" THEN [id |-> p.id, prompt |-> RefinedText(p.prompt)]
    ELSE p

\* Variant: a failed render leaves the entry without a url.
ImageResultNoPlaceholder(p, outcome) ==
    IF outcome = "ok"
    THEN [id |-> p.id, url |-> DataUrl(p.prompt), prompt |-> p.prompt]
    ELSE [id |-> p.id, url |-> NoText, prompt |-> p.prompt]

\* The entry generateImages pushes for one item.
ImageResult(p, outcome) ==
    IF outcome = "ok"
    THEN [id |-> p.id, url |-> DataUrl(p.prompt), prompt |-> p.prompt]
    ELSE [id |-> p.id, url |-> FailedUrl, prompt |-> p.prompt]

\* Variant: a failed favicon call yields an entry without a url.
FaviconResultUrlOnFailure(prompt, outcome) ==
    IF outcome = "ok" THEN [url |-> FaviconUrl(prompt), prompt |-> prompt]
    ELSE [url |-> NoText, prompt |-> prompt]

\* What generateFavicon returns.
FaviconResult(prompt, outcome) ==
    IF outcome = "ok" THEN [url |-> FaviconUrl(prompt), prompt |-> prompt]
    ELSE NoFavicon

\* Variant: the stage ends with the first promise that settles.
AnySettled(calls) == \E i \in 1..Len(calls) : calls[i] \in Settled

\* Promise.all over the refinement promises has resolved.
AllSettled(calls) == \A i \in 1..Len(calls) : calls[i] \in Settled

\* ------------------------------------------------------------------ state
VARIABLES
    htmlEditor,             \* htmlEditor.getValue()
    cssEditor,              \* cssEditor.getValue()
    latestGeneratedImages,  \* recorded image list
    latestFavicon,          \* recorded favicon, or NoFavicon
    history,                \* snapshots [html, css]
    historyIndex,           \* cursor, -1 while nothing was pushed
    previewSrcdoc,          \* previewFrame.srcdoc
    ui,                     \* hidden/disabled flags of the controls
    autoSaveTimeout,        \* TRUE while the debounce timer is pending
    store,                  \* the local-storage record
    loaded,                 \* the window load handler has run
    pc,                     \* where generateWebsite is suspended
    websiteData,            \* parsed structured response of the run
    structuredCall,         \* state of the structured-generation call
    refineCall,             \* state of each refinement call
    improvedPrompts,        \* value of each refinement promise
    faviconCall,            \* state of the favicon call
    imageCall,              \* state of each image-rendering call
    results,                \* generateImages' local results array
    preRun,                 \* the document when the run started (observer)
    runOutcome,             \* how the last run ended (observer)
    runs,                   \* runs started so far (observer)
    edits,                  \* editor changes typed so far (observer)
    lastOp,                 \* last history button handler invoked (observer)
    script,                 \* history operations since the last reset (observer)
    active,                 \* generation runs started and not yet ended (observer)
    alertMsg,               \* text of the last alert shown
    exportPc,               \* where the export handler is suspended
    exportDoc,              \* the document the export handler rewrites
    exportImages,           \* the array the export loop iterates
    exportIdx,              \* position of the export loop
    exportFavicon,          \* latestFavicon as the export handler read it
    zip,                    \* the archive under construction
    download,               \* the archive handed to the browser last
    exportOutcome,          \* how the last export click ended (observer)
    exporting,              \* export handlers started and not yet ended (observer)
    timers,                 \* number of pending debounce timers
    burst,                  \* editor changes since the last timer fired (observer)
    setItemLog,             \* records the last save passed to setItem (observer)
    saveResult,             \* how the last save ended (observer)
    preRunUi,               \* visibility of the sections when the run started (observer)
    reloads                 \* page reloads so far (observer)

docVars == <<htmlEditor, cssEditor, latestGeneratedImages, latestFavicon>>
histVars == <<history, historyIndex>>
exportVars == <<exportPc, exportDoc, exportImages, exportIdx, exportFavicon,
                zip, download, exportOutcome, exporting>>
saveObs == <<setItemLog, saveResult>>
runVars == <<pc, websiteData, structuredCall, refineCall, improvedPrompts,
             faviconCall, imageCall, results>>
vars == <<htmlEditor, cssEditor, latestGeneratedImages, latestFavicon,
          history, historyIndex, previewSrcdoc, ui, autoSaveTimeout, store,
          loaded, pc, websiteData, structuredCall, refineCall,
          improvedPrompts, faviconCall, imageCall, results, preRun,
          runOutcome, runs, edits, lastOp, script, active, alertMsg,
          exportPc, exportDoc, exportImages, exportIdx, exportFavicon, zip,
          download, exportOutcome, exporting, timers, burst, setItemLog,
          saveResult, preRunUi, reloads>>

NoData ==
    [htmlContent |-> BlankHtml, imagePrompts |-> <<>>,
     metaDescription |-> NoText, metaKeywords |-> NoText,
     faviconPrompt |-> NoText]

\* The document and history as one value; NoDoc when nothing is remembered.
CurrentDoc ==
    [html |-> htmlEditor, css |-> cssEditor, images |-> latestGeneratedImages,
     favicon |-> latestFavicon, history |-> history,
     historyIndex |-> historyIndex]
NoDoc ==
    [html |-> BlankHtml, css |-> NoText, images |-> <<>>,
     favicon |-> NoFavicon, history |-> <<>>, historyIndex |-> -2]

\* localStorage.getItem('ai-website-gen-data') === null
NoRecord ==
    [present |-> FALSE, parses |-> FALSE, html |-> BlankHtml, css |-> NoText,
     images |-> <<>>, favicon |-> NoFavicon]

\* A record an earlier session saved.
EarlierRecord ==
    [present |-> TRUE, parses |-> TRUE,
     html |-> SplitDocument(HtmlA, "a bakery", "bread,cake",
                            FaviconResult("blue hexagon", "ok")).html,
     css |-> SplitDocument(HtmlA, "a bakery", "bread,cake",
                           FaviconResult("blue hexagon", "ok")).css,
     images |-> << ImageResult(PromptItem(1), "ok") >>,
     favicon |-> FaviconResult("blue hexagon", "ok")]

\* An images field that is not an array (a JSON string): it has a length
\* and no forEach method, and what it yields names no element.
NotAList ==
    << [id |-> "not a list", url |-> "not a list", prompt |-> "not a list"] >>

\* Items of the store this program did not write, or wrote for a document
\* whose markup was emptied: a text that is not JSON, a record whose images
\* field is not an array, a record with empty markup.
GarbageRecord == [NoRecord EXCEPT !.present = TRUE]
MalformedRecord == [EarlierRecord EXCEPT !.images = NotAList]
EmptyMarkupRecord == [EarlierRecord EXCEPT !.html = BlankHtml]
\* A record of a document whose placeholder ids differ only in letter
\* case and punctuation, or spell the name of the favicon file.
CollidingRecord ==
    [EarlierRecord EXCEPT
        !.html.imgs = << [id |-> "hero-image", src |-> NoText],
                         [id |-> "Hero_Image", src |-> NoText],
                         [id |-> "favicon", src |-> NoText] >>,
        !.images =
            << ImageResult([id |-> "hero-image", prompt |-> "bread"], "ok"),
               ImageResult([id |-> "Hero_Image", prompt |-> "cake"], "ok"),
               ImageResult([id |-> "favicon", prompt |-> "shop sign"], "ok") >>]

StoredRecords ==
    {NoRecord, EarlierRecord, GarbageRecord, MalformedRecord,
     EmptyMarkupRecord}

\* The observer of the history scenario reset; push; push; undo; push: the
\* operations since the last reset while they follow that shape, else <<>>.
ScriptShape == <<"reset", "push", "push", "undo", "push">>
ScriptStep(s, op, html, css) ==
    LET next == Append(s, [op |-> op, html |-> html, css |-> css])
    IN  IF op = "reset" THEN << [op |-> op, html |-> html, css |-> css] >>
        ELSE IF s # <<>> /\ Len(next) <= Len(ScriptShape)
                /\ ScriptShape[Len(next)] = op
             THEN next
             ELSE <<>>

\* The page after its script has run, whatever the store holds.
InitMemory ==
    /\ htmlEditor = BlankHtml
    /\ cssEditor = NoText
    /\ latestGeneratedImages = <<>>
    /\ latestFavicon = NoFavicon
    /\ history = <<>>
    /\ historyIndex = -1
    /\ previewSrcdoc = BlankHtml
    /\ ui = [generateBtnDisabled |-> FALSE, loadingHidden |-> TRUE,
             inputHidden |-> FALSE, resultHidden |-> TRUE,
             undoDisabled |-> TRUE, redoDisabled |-> TRUE,
             exportBtnDisabled |-> FALSE]
    /\ autoSaveTimeout = FALSE
    /\ loaded = FALSE
    /\ pc = "idle"
    /\ websiteData = NoData
    /\ structuredCall = "none"
    /\ refineCall = <<>>
    /\ improvedPrompts = <<>>
    /\ faviconCall = "none"
    /\ imageCall = <<>>
    /\ results = <<>>
    /\ preRun = NoDoc
    /\ runOutcome = "none"
    /\ runs = 0
    /\ edits = 0
    /\ lastOp = "other"
    /\ script = <<>>
    /\ active = 0
    /\ alertMsg = NoText
    /\ exportPc = "idle"
    /\ exportDoc = BlankHtml
    /\ exportImages = <<>>
    /\ exportIdx = 0
    /\ exportFavicon = NoFavicon
    /\ zip = NoZip
    /\ download = NoZip
    /\ exportOutcome = "none"
    /\ exporting = 0
    /\ timers = 0
    /\ burst = 0
    /\ setItemLog = <<>>
    /\ saveResult = "none"
    /\ preRunUi = [inputHidden |-> FALSE, resultHidden |-> TRUE]
    /\ reloads = 0

Init == InitMemory /\ store \in {NoRecord, EarlierRecord}

\* ------------------------------------------------------------------ helpers of the actions
\* Variant: every image call is issued at once (prompts.map(async ...)).
IssueAll(n) == [i \in 1..n |-> "inflight"]

\* generateImages starts: the loop awaits the call for the first item.
IssueFirst(n) == [i \in 1..n |-> IF i = 1 THEN "inflight" ELSE "none"]

\* Variant: the loop stops after the item whose call has settled.
IssueNextNever(calls, i) == calls

\* The loop goes on to the item after i once the call for i has settled.
IssueNext(calls, i) ==
    IF i < Len(calls) /\ calls[i + 1] = "none"
    THEN [calls EXCEPT ![i + 1] = "inflight"]
    ELSE calls

\* Variant: the catch block pushes nothing.
PushResultOnSuccess(res, p, outcome) ==
    IF outcome = "ok" THEN Append(res, ImageResult(p, outcome)) ELSE res

\* results.push(...) in the try and in the catch of the loop body.
PushResult(res, p, outcome) == Append(res, ImageResult(p, outcome))

\* Variant: the pending timer is not cleared before the new one is set.
TriggerAutoSaveNoClear(pending, live) == pending + 1

\* triggerAutoSave: the number of pending timers after one editor change;
\* live tells whether autoSaveTimeout names a timer that is still pending.
TriggerAutoSave(pending, live) ==
    (IF live THEN pending - 1 ELSE pending) + 1

\* The count of editor changes since the last save, after k more changes.
BurstAfter(b, k) == IF b + k > MaxBurst THEN MaxBurst ELSE b + k

\* ------------------------------------------------------------------ getFriendlyErrorMessage
\* One character of String.prototype.toLowerCase().
ToLowerChar(c) ==
    IF CharIn(c, UpperChars)
    THEN LET i == CHOOSE k \in 1..Len(UpperChars) :
                      SubSeq(UpperChars, k, k) = c
         IN  SubSeq(LowerChars, i, i)
    ELSE c

\* errorMessage.toLowerCase()
RECURSIVE ToLowerCase(_)
ToLowerCase(m) ==
    IF Len(m) = 0 THEN ""
    ELSE ToLowerChar(SubSeq(m, 1, 1)) \o ToLowerCase(SubSeq(m, 2, Len(m)))

\* String.prototype.includes
Includes(m, part) ==
    \E i \in 1..(Len(m) - Len(part) + 1) :
        SubSeq(m, i, i + Len(part) - 1) = part

\* errorMessage.substring(0, 150)
MaxShown == 150
Substring(m) == IF Len(m) <= MaxShown THEN m ELSE SubSeq(m, 1, MaxShown)

\* error instanceof Error ? error.message : String(error).  A thrown value
\* is an Error with a message, a string, or a plain object.
ErrorText(err) ==
    IF err.kind = "Error" THEN err.message
    ELSE IF err.kind = "string" THEN err.message
    ELSE "[object Object]"

\* The conditions of the six if statements, in the order of the source.
AuthSignature(m) ==
    Includes(m, "401") \/ Includes(m, "403")
        \/ Includes(ToLowerCase(m), "api key")
QuotaSignature(m) ==
    Includes(m, "429") \/ Includes(ToLowerCase(m), "quota")
        \/ Includes(ToLowerCase(m), "resource exhausted")
OverloadSignature(m) ==
    Includes(m, "503") \/ Includes(ToLowerCase(m), "overloaded")
        \/ Includes(ToLowerCase(m), "unavailable")
SafetySignature(m) ==
    Includes(ToLowerCase(m), "safety") \/ Includes(ToLowerCase(m), "blocked")
        \/ Includes(ToLowerCase(m), "harmful")
FormatSignature(m) ==
    Includes(ToLowerCase(m), "json") \/ Includes(ToLowerCase(m), "syntax")
NetworkSignature(m) == Includes(m, "Failed to fetch")

\* The texts the function returns (umlauts written out).
AuthMsg ==
    "Authentifizierung fehlgeschlagen. Bitte ueberpruefen Sie Ihren API-Schluessel."
QuotaMsg == "API-Limit erreicht. Bitte versuchen Sie es spaeter erneut."
OverloadMsg ==
    "Der AI-Dienst ist derzeit ueberlastet. Bitte warten Sie einen Moment."
SafetyMsg ==
    "Die Anfrage wurde blockiert. Bitte formulieren Sie Ihren Prompt sicherer."
FormatMsg ==
    "Ungueltiges Antwortformat der KI. Bitte versuchen Sie es erneut."
NetworkMsg ==
    "Netzwerkfehler. Bitte ueberpruefen Sie Ihre Internetverbindung."
GenericMsg(m) ==
    "Ein unerwarteter Fehler ist aufgetreten: " \o Substring(m) \o "..."

\* Variant: the quota test comes before the authentication test.
GetFriendlyErrorMessageQuotaFirst(err) ==
    LET m == ErrorText(err)
    IN  IF QuotaSignature(m) THEN QuotaMsg
        ELSE IF AuthSignature(m) THEN AuthMsg
        ELSE IF OverloadSignature(m) THEN OverloadMsg
        ELSE IF SafetySignature(m) THEN SafetyMsg
        ELSE IF FormatSignature(m) THEN FormatMsg
        ELSE IF NetworkSignature(m) THEN NetworkMsg
        ELSE GenericMsg(m)

\* getFriendlyErrorMessage(error)
GetFriendlyErrorMessage(err) ==
    LET m == ErrorText(err)
    IN  IF AuthSignature(m) THEN AuthMsg
        ELSE IF QuotaSignature(m) THEN QuotaMsg
        ELSE IF OverloadSignature(m) THEN OverloadMsg
        ELSE IF SafetySignature(m) THEN SafetyMsg
        ELSE IF FormatSignature(m) THEN FormatMsg
        ELSE IF NetworkSignature(m) THEN NetworkMsg
        ELSE GenericMsg(m)

\* Values the structured-generation stage throws: the SDK's and fetch's
\* errors, the SyntaxError of JSON.parse, the TypeError raised on a response
\* without an imagePrompts list, and values that are not Errors.
ErrorOf(text) == [kind |-> "Error", message |-> text]
FetchError == ErrorOf("Failed to fetch")
Errors ==
    {FetchError,
     ErrorOf("failed to fetch"),
     ErrorOf("[401] Unauthorized"),
     ErrorOf("API Key not valid. Please pass a valid API key."),
     ErrorOf("[403] Quota project not set"),
     ErrorOf("[429] The service is currently unavailable"),
     ErrorOf("Quota exceeded: RESOURCE EXHAUSTED"),
     ErrorOf("[503] The model is overloaded"),
     ErrorOf("Service Unavailable: response blocked"),
     ErrorOf("Response was blocked due to SAFETY"),
     ErrorOf("Harmful content in JSON"),
     ErrorOf("Unexpected token < in JSON at position 0"),
     ErrorOf("SyntaxError: Failed to fetch"),
     ErrorOf("Cannot read properties of undefined (reading 'map')"),
     [kind |-> "string", message |-> "status 429"],
     [kind |-> "object", message |-> "Failed to fetch"]}

\* The six conditions and the returned text for each of the errors.
SignaturesOf ==
    [err \in Errors |->
        << AuthSignature(ErrorText(err)), QuotaSignature(ErrorText(err)),
           OverloadSignature(ErrorText(err)), SafetySignature(ErrorText(err)),
           FormatSignature(ErrorText(err)), NetworkSignature(ErrorText(err)) >>]
FriendlyErrorMessageOf == [err \in Errors |-> GetFriendlyErrorMessage(err)]

\* The texts showError is given by the validation of the submit handler.
InvalidInputMsg == "Bitte geben Sie eine Beschreibung fuer Ihre Website ein."

\* showError: the loading panel is hidden and the input section shown.
ShowError(u) == [u EXCEPT !.loadingHidden = TRUE, !.inputHidden = FALSE]

\* Variant: the generate button stays enabled while the run is in flight.
StartLoadingButtonEnabled(u) ==
    [u EXCEPT !.loadingHidden = FALSE, !.inputHidden = TRUE,
              !.resultHidden = TRUE]

\* The first statements of generateWebsite: loading panel shown, generate
\* button disabled, input section and result container hidden.
StartLoading(u) ==
    [u EXCEPT !.loadingHidden = FALSE, !.generateBtnDisabled = TRUE,
              !.inputHidden = TRUE, !.resultHidden = TRUE]

\* showError(...) in the catch, then the finally block of generateWebsite.
AfterFailure(u) ==
    [u EXCEPT !.loadingHidden = TRUE, !.inputHidden = FALSE,
              !.generateBtnDisabled = FALSE]

\* populateUI shows the result; then the finally block of generateWebsite.
AfterSuccess(u, h, idx) ==
    [u EXCEPT !.resultHidden = FALSE, !.loadingHidden = TRUE,
              !.generateBtnDisabled = FALSE,
              !.undoDisabled = UndoDisabled(h, idx),
              !.redoDisabled = RedoDisabled(h, idx)]

\* ------------------------------------------------------------------ generateWebsite
\* The submit handler when the validation refuses the description: the
\* message is shown and generateWebsite is not called.  A disabled submit
\* button does not submit the form.
SubmitInvalid ==
    /\ ~ui.generateBtnDisabled
    /\ ui' = ShowError(ui)
    /\ alertMsg' = InvalidInputMsg
    /\ lastOp' = "other"
    /\ UNCHANGED <<docVars, histVars, previewSrcdoc, autoSaveTimeout, timers,
                   burst, store, loaded, runVars, preRun, runOutcome, runs, preRunUi, reloads,
                   edits, script, active, exportVars, saveObs>>

\* The submit handler up to the first await of generateWebsite.
Submit ==
    /\ ~ui.generateBtnDisabled
    /\ runs < MaxRuns
    /\ ui' = StartLoading(ui)
    /\ latestGeneratedImages' = <<>>
    /\ latestFavicon' = NoFavicon
    /\ pc' = "structured"
    /\ structuredCall' = "inflight"
    /\ websiteData' = NoData
    /\ refineCall' = <<>>
    /\ improvedPrompts' = <<>>
    /\ faviconCall' = "none"
    /\ imageCall' = <<>>
    /\ results' = <<>>
    /\ preRun' = CurrentDoc
    /\ preRunUi' = [inputHidden |-> ui.inputHidden,
                    resultHidden |-> ui.resultHidden]
    /\ runOutcome' = "running"
    /\ runs' = runs + 1
    /\ active' = active + 1
    /\ lastOp' = "other"
    /\ UNCHANGED <<htmlEditor, cssEditor, histVars, previewSrcdoc,
                   autoSaveTimeout, timers, burst, store, loaded, edits, script,
                   alertMsg, exportVars, saveObs, reloads>>

\* The structured call rejects, or its text does not parse, or the parsed
\* value has no imagePrompts list: the catch and the finally blocks run.
StructuredFail(err) ==
    /\ pc = "structured"
    /\ structuredCall = "inflight"
    /\ structuredCall' = "failed"
    /\ pc' = "idle"
    /\ ui' = AfterFailure(ui)
    /\ alertMsg' = FriendlyErrorMessageOf[err]
    /\ runOutcome' = "aborted"
    /\ active' = active - 1
    /\ UNCHANGED <<docVars, histVars, previewSrcdoc, autoSaveTimeout, timers, burst, store,
                   loaded, websiteData, refineCall, improvedPrompts,
                   faviconCall, imageCall, results, preRun, runs, preRunUi, reloads, edits, lastOp,
                   script,
                   exportVars, saveObs>>

\* The structured call answers d: improveImagePrompts issues every
\* refinement call at once; with no prompts Promise.all resolves at once and
\* generateFavicon issues its call.
StructuredOk(d) ==
    /\ pc = "structured"
    /\ structuredCall = "inflight"
    /\ structuredCall' = "ok"
    /\ websiteData' = d
    /\ refineCall' = [i \in 1..Len(d.imagePrompts) |-> "inflight"]
    /\ improvedPrompts' = d.imagePrompts
    /\ IF AllSettled(refineCall')
       THEN pc' = "favicon" /\ faviconCall' = "inflight"
       ELSE pc' = "refine" /\ faviconCall' = "none"
    /\ UNCHANGED <<docVars, histVars, previewSrcdoc, ui, autoSaveTimeout, timers, burst,
                   store, loaded, imageCall, results, preRun, runOutcome,
                   runs, preRunUi, reloads, edits, lastOp, script,
                   active, alertMsg, exportVars, saveObs>>

\* Variant: the values are collected in the order the calls settle.
PromiseAllInSettleOrder(values, calls, i, value) ==
    [values EXCEPT
        ![Cardinality({j \in 1..Len(calls) : calls[j] \in Settled}) + 1] =
            value]

\* Promise.all(improvedPromptsPromises): the value of promise i is element
\* i of the array, whichever calls settled before it.
PromiseAll(values, calls, i, value) == [values EXCEPT ![i] = value]

\* One refinement call settles; when Promise.all resolves, generateFavicon
\* issues its call.
RefineSettle(i, outcome) ==
    /\ i \in 1..Len(refineCall)
    /\ refineCall[i] = "inflight"
    /\ refineCall' = [refineCall EXCEPT ![i] = outcome]
    /\ improvedPrompts' =
         PromiseAll(improvedPrompts, refineCall, i,
                    RefinementResult(websiteData.imagePrompts[i], outcome))
    /\ IF pc = "refine" /\ AllSettled(refineCall')
       THEN pc' = "favicon" /\ faviconCall' = "inflight"
       ELSE UNCHANGED <<pc, faviconCall>>
    /\ UNCHANGED <<docVars, histVars, previewSrcdoc, ui, autoSaveTimeout, timers, burst,
                   store, loaded, websiteData, structuredCall, imageCall,
                   results, preRun, runOutcome, runs, preRunUi, reloads, edits, lastOp, script,
                   active, alertMsg, exportVars, saveObs>>

\* The favicon call settles: latestFavicon is assigned and generateImages
\* starts its loop.
FaviconSettle(outcome) ==
    /\ pc = "favicon"
    /\ faviconCall = "inflight"
    /\ faviconCall' = outcome
    /\ latestFavicon' = FaviconResult(websiteData.faviconPrompt, outcome)
    /\ imageCall' = IssueFirst(Len(improvedPrompts))
    /\ results' = <<>>
    /\ pc' = IF Len(improvedPrompts) = 0 THEN "delay" ELSE "images"
    /\ UNCHANGED <<htmlEditor, cssEditor, latestGeneratedImages, histVars,
                   previewSrcdoc, ui, autoSaveTimeout, timers, burst, store, loaded,
                   websiteData, structuredCall, refineCall, improvedPrompts,
                   preRun, runOutcome, runs, preRunUi, reloads, edits, lastOp, script,
                   active, alertMsg, exportVars, saveObs>>

\* One image call settles: its entry is pushed and the loop goes on, or the
\* 500 ms delay starts after the last item.
ImageSettle(i, outcome) ==
    /\ pc = "images"
    /\ i \in 1..Len(imageCall)
    /\ imageCall[i] = "inflight"
    /\ results' = PushResult(results, improvedPrompts[i], outcome)
    /\ imageCall' = IssueNext([imageCall EXCEPT ![i] = outcome], i)
    /\ pc' = IF \A j \in 1..Len(imageCall) : imageCall'[j] \in Settled
             THEN "delay" ELSE "images"
    /\ UNCHANGED <<docVars, histVars, previewSrcdoc, ui, autoSaveTimeout, timers, burst,
                   store, loaded, websiteData, structuredCall, refineCall,
                   improvedPrompts, faviconCall, preRun, runOutcome, runs, preRunUi, reloads, edits,
                   edits, lastOp, script,
                   active, alertMsg, exportVars, saveObs>>

\* The delay ends: populateUI publishes the document, then the finally block.
Publish ==
    /\ pc = "delay"
    /\ LET split == SplitDocument(websiteData.htmlContent,
                                  websiteData.metaDescription,
                                  websiteData.metaKeywords, latestFavicon)
           pushed == ResetHistory(history, historyIndex, split.html,
                                  split.css)
       IN  /\ latestGeneratedImages' = results
           /\ htmlEditor' = split.html
           /\ cssEditor' = split.css
           /\ history' = pushed.history
           /\ historyIndex' = pushed.historyIndex
           /\ previewSrcdoc' =
                UpdatePreview(split.html, split.css, results, latestFavicon)
           /\ ui' = AfterSuccess(ui, pushed.history, pushed.historyIndex)
           /\ script' = ScriptStep(script, "reset", split.html, split.css)
    /\ autoSaveTimeout' = TRUE
    /\ timers' = TriggerAutoSave(TriggerAutoSave(TriggerAutoSave(
                    timers, autoSaveTimeout), TRUE), TRUE)
    /\ burst' = BurstAfter(burst, 3)
    /\ pc' = "idle"
    /\ runOutcome' = "success"
    /\ active' = active - 1
    /\ preRun' = NoDoc
    /\ lastOp' = "other"
    /\ UNCHANGED <<latestFavicon, store, loaded, websiteData, structuredCall,
                   refineCall, improvedPrompts, faviconCall, imageCall,
                   results, runs, preRunUi, reloads, edits,
                   alertMsg, exportVars, saveObs>>

\* ------------------------------------------------------------------ editors and history
\* The user types in the HTML editor: the change listener arms the timer.
EditHtml(h) ==
    /\ edits < MaxEdits
    /\ h # htmlEditor
    /\ htmlEditor' = h
    /\ edits' = edits + 1
    /\ autoSaveTimeout' = TRUE
    /\ timers' = TriggerAutoSave(timers, autoSaveTimeout)
    /\ burst' = BurstAfter(burst, 1)
    /\ preRun' = NoDoc
    /\ lastOp' = "other"
    /\ UNCHANGED <<cssEditor, latestGeneratedImages, latestFavicon, histVars,
                   previewSrcdoc, ui, store, loaded, runVars, runOutcome,
                   runs, preRunUi, reloads, script,
                   active, alertMsg, exportVars, saveObs>>

\* The user types in the CSS editor: the change listener arms the timer.
EditCss(c) ==
    /\ edits < MaxEdits
    /\ c # cssEditor
    /\ cssEditor' = c
    /\ edits' = edits + 1
    /\ autoSaveTimeout' = TRUE
    /\ timers' = TriggerAutoSave(timers, autoSaveTimeout)
    /\ burst' = BurstAfter(burst, 1)
    /\ preRun' = NoDoc
    /\ lastOp' = "other"
    /\ UNCHANGED <<htmlEditor, latestGeneratedImages, latestFavicon, histVars,
                   previewSrcdoc, ui, store, loaded, runVars, runOutcome,
                   runs, preRunUi, reloads, script,
                   active, alertMsg, exportVars, saveObs>>

\* updatePreviewBtn click: updatePreview, then pushHistoryState.
UpdatePreviewClick ==
    /\ Len(SliceFuture(history, historyIndex)) < MaxHist
    /\ previewSrcdoc' = UpdatePreview(htmlEditor, cssEditor,
                                      latestGeneratedImages, latestFavicon)
    /\ LET pushed == PushHistoryState(history, historyIndex, htmlEditor,
                                      cssEditor)
       IN  /\ history' = pushed.history
           /\ historyIndex' = pushed.historyIndex
           /\ ui' = [ui EXCEPT
                       !.undoDisabled =
                           UndoDisabled(pushed.history, pushed.historyIndex),
                       !.redoDisabled =
                           RedoDisabled(pushed.history, pushed.historyIndex)]
    /\ script' = ScriptStep(script, "push", htmlEditor, cssEditor)
    /\ preRun' = NoDoc
    /\ lastOp' = "other"
    /\ UNCHANGED <<docVars, autoSaveTimeout, timers, burst, store, loaded, runVars,
                   runOutcome, runs, preRunUi, reloads, edits,
                   active, alertMsg, exportVars, saveObs>>

\* Variant: the snapshot is read at the cursor the handler started from.
LoadStateFromHistoryStale(idx) ==
    IF idx \in 0..(Len(history) - 1)
    THEN /\ htmlEditor' = history[historyIndex + 1].html
         /\ cssEditor' = history[historyIndex + 1].css
         /\ previewSrcdoc' =
              UpdatePreview(history[historyIndex + 1].html,
                            history[historyIndex + 1].css,
                            latestGeneratedImages, latestFavicon)
         /\ ui' = [ui EXCEPT !.undoDisabled = UndoDisabled(history, idx),
                             !.redoDisabled = RedoDisabled(history, idx)]
         /\ autoSaveTimeout' = TRUE
         /\ timers' = TriggerAutoSave(TriggerAutoSave(timers, autoSaveTimeout),
                                      TRUE)
         /\ burst' = BurstAfter(burst, 2)
    ELSE UNCHANGED <<htmlEditor, cssEditor, previewSrcdoc, ui,
                     autoSaveTimeout, timers, burst>>

\* loadStateFromHistory with the cursor at idx: both editors are set, the
\* preview is redrawn and the buttons updated.  history[idx] is undefined
\* for a cursor outside the sequence and reading state.html throws, which
\* ends the handler.
LoadStateFromHistory(idx) ==
    IF idx \in 0..(Len(history) - 1)
    THEN /\ htmlEditor' = history[idx + 1].html
         /\ cssEditor' = history[idx + 1].css
         /\ previewSrcdoc' =
              UpdatePreview(history[idx + 1].html, history[idx + 1].css,
                            latestGeneratedImages, latestFavicon)
         /\ ui' = [ui EXCEPT !.undoDisabled = UndoDisabled(history, idx),
                             !.redoDisabled = RedoDisabled(history, idx)]
         /\ autoSaveTimeout' = TRUE
         /\ timers' = TriggerAutoSave(TriggerAutoSave(timers, autoSaveTimeout),
                                      TRUE)
         /\ burst' = BurstAfter(burst, 2)
    ELSE UNCHANGED <<htmlEditor, cssEditor, previewSrcdoc, ui,
                     autoSaveTimeout, timers, burst>>

\* Variant: an undo that moves the cursor also forgets the recorded images
\* and the favicon.
UndoClickForgetsAssets ==
    /\ IF CanUndo(historyIndex)
       THEN /\ historyIndex' = historyIndex - 1
            /\ LoadStateFromHistory(historyIndex - 1)
            /\ script' = ScriptStep(script, "undo", BlankHtml, NoText)
            /\ preRun' = NoDoc
            /\ latestGeneratedImages' = <<>>
            /\ latestFavicon' = NoFavicon
       ELSE UNCHANGED <<historyIndex, htmlEditor, cssEditor, previewSrcdoc,
                        ui, autoSaveTimeout, timers, burst, script, preRun,
                        latestGeneratedImages, latestFavicon>>
    /\ lastOp' = IF historyIndex = 0 THEN "undoAtFirst" ELSE "undo"
    /\ UNCHANGED <<history, store,
                   loaded, runVars, runOutcome, runs, preRunUi, reloads, edits,
                   active, alertMsg, exportVars, saveObs>>

\* undoBtn click handler.
UndoClick ==
    /\ IF CanUndo(historyIndex)
       THEN /\ historyIndex' = historyIndex - 1
            /\ LoadStateFromHistory(historyIndex - 1)
            /\ script' = ScriptStep(script, "undo", BlankHtml, NoText)
            /\ preRun' = NoDoc
       ELSE UNCHANGED <<historyIndex, htmlEditor, cssEditor, previewSrcdoc,
                        ui, autoSaveTimeout, timers, burst, script, preRun>>
    /\ lastOp' = IF historyIndex = 0 THEN "undoAtFirst" ELSE "undo"
    /\ UNCHANGED <<history, latestGeneratedImages, latestFavicon, store,
                   loaded, runVars, runOutcome, runs, preRunUi, reloads, edits,
                   active, alertMsg, exportVars, saveObs>>

\* redoBtn click handler.
RedoClick ==
    /\ IF CanRedo(history, historyIndex)
       THEN /\ historyIndex' = historyIndex + 1
            /\ LoadStateFromHistory(historyIndex + 1)
            /\ script' = ScriptStep(script, "redo", BlankHtml, NoText)
            /\ preRun' = NoDoc
       ELSE UNCHANGED <<historyIndex, htmlEditor, cssEditor, previewSrcdoc,
                        ui, autoSaveTimeout, timers, burst, script, preRun>>
    /\ lastOp' = IF historyIndex = Len(history) - 1 THEN "redoAtLast"
                 ELSE "redo"
    /\ UNCHANGED <<history, latestGeneratedImages, latestFavicon, store,
                   loaded, runVars, runOutcome, runs, preRunUi, reloads, edits,
                   active, alertMsg, exportVars, saveObs>>

\* ------------------------------------------------------------------ export handler
\* The texts of the alerts of the export handler.
ExportFirstMsg == "Bitte generieren Sie zuerst eine Website."
ExportErrorMsg == "Fehler beim Exportieren."

\* Variant: the export button stays enabled while the export runs.
StartExportButtonEnabled(u) == u

\* exportBtn.disabled = true
StartExport(u) == [u EXCEPT !.exportBtnDisabled = TRUE]

\* The handler is suspended at c.pc with the document, archive and loop
\* position of c.
ExportSuspend(c) ==
    /\ exportPc' = c.pc
    /\ exportIdx' = c.idx
    /\ exportDoc' = c.doc
    /\ exportFavicon' = c.favicon
    /\ zip' = c.zip

\* Variant: the catch block hands over what the archive holds so far.
ExportFailOffersArchive ==
    /\ exportPc' = "idle"
    /\ ui' = [ShowError(ui) EXCEPT !.exportBtnDisabled = FALSE]
    /\ alertMsg' = ExportErrorMsg
    /\ exportOutcome' = "failed"
    /\ exporting' = exporting - 1
    /\ download' = zip
    /\ UNCHANGED <<exportDoc, exportImages, exportIdx, exportFavicon, zip>>

\* A fetch or generateAsync rejects: the catch block shows the error and
\* the finally block enables the button.
ExportFail ==
    /\ exportPc' = "idle"
    /\ ui' = [ShowError(ui) EXCEPT !.exportBtnDisabled = FALSE]
    /\ alertMsg' = ExportErrorMsg
    /\ exportOutcome' = "failed"
    /\ exporting' = exporting - 1
    /\ UNCHANGED <<exportDoc, exportImages, exportIdx, exportFavicon, zip,
                   download>>

\* exportBtn click: the precondition, then the handler up to its first
\* await.  A disabled button dispatches no click.
ExportClick ==
    /\ ~ui.exportBtnDisabled
    /\ IF ExportRefused(htmlEditor, latestGeneratedImages)
       THEN /\ alertMsg' = ExportFirstMsg
            /\ exportOutcome' = "rejected"
            /\ UNCHANGED <<ui, exportPc, exportDoc, exportImages, exportIdx,
                           exportFavicon, zip, download, exporting>>
       ELSE /\ ui' = StartExport(ui)
            /\ exportImages' = latestGeneratedImages
            /\ ExportSuspend(ExportContinue(ParseHtml(htmlEditor), NoZip,
                                            latestGeneratedImages, 0,
                                            latestFavicon, cssEditor))
            /\ exportOutcome' = "running"
            /\ exporting' = exporting + 1
            /\ UNCHANGED <<alertMsg, download>>
    /\ UNCHANGED <<docVars, histVars, previewSrcdoc, autoSaveTimeout, timers,
                   burst, store, loaded, runVars, preRun, runOutcome, runs, preRunUi, reloads,
                   edits, lastOp, script, active, saveObs>>

\* The fetch of the image at the loop position settles: its blob is added
\* under the image's path and the handler runs to its next await.
ExportImageFetched(outcome) ==
    /\ exportPc = "image"
    /\ IF outcome = "ok"
       THEN /\ ExportSuspend(ExportContinue(
                   exportDoc,
                   ZipFile(zip, ExportPath(exportImages[exportIdx].id),
                           exportImages[exportIdx].url),
                   exportImages, exportIdx, latestFavicon, cssEditor))
            /\ UNCHANGED <<ui, alertMsg, exportImages, download, exportOutcome,
                           exporting>>
       ELSE ExportFail
    /\ UNCHANGED <<docVars, histVars, previewSrcdoc, autoSaveTimeout, timers,
                   burst, store, loaded, runVars, preRun, runOutcome, runs, preRunUi, reloads,
                   edits, lastOp, script, active, saveObs>>

\* The fetch of the favicon settles.
ExportFaviconFetched(outcome) ==
    /\ exportPc = "favicon"
    /\ IF outcome = "ok"
       THEN /\ ExportSuspend(ExportFinish(
                   exportDoc, ZipFile(zip, FaviconPath, exportFavicon.url),
                   exportImages, exportFavicon, cssEditor))
            /\ UNCHANGED <<ui, alertMsg, exportImages, download, exportOutcome,
                           exporting>>
       ELSE ExportFail
    /\ UNCHANGED <<docVars, histVars, previewSrcdoc, autoSaveTimeout, timers,
                   burst, store, loaded, runVars, preRun, runOutcome, runs, preRunUi, reloads,
                   edits, lastOp, script, active, saveObs>>

\* generateAsync settles: the archive is downloaded and the finally block
\* enables the button.
ExportZipDone(outcome) ==
    /\ exportPc = "zip"
    /\ IF outcome = "ok"
       THEN /\ download' = zip
            /\ exportPc' = "idle"
            /\ ui' = [ui EXCEPT !.exportBtnDisabled = FALSE]
            /\ exportOutcome' = "done"
            /\ exporting' = exporting - 1
            /\ UNCHANGED <<alertMsg, exportDoc, exportImages, exportIdx,
                           exportFavicon, zip>>
       ELSE ExportFail
    /\ UNCHANGED <<docVars, histVars, previewSrcdoc, autoSaveTimeout, timers,
                   burst, store, loaded, runVars, preRun, runOutcome, runs, preRunUi, reloads,
                   edits, lastOp, script, active, saveObs>>

\* ------------------------------------------------------------------ persistence
\* Variant: the record is built without the CSS.
SaveRecordWithoutCss(html, css, images, favicon) ==
    [present |-> TRUE, parses |-> TRUE, html |-> html, css |-> NoText,
     images |-> images, favicon |-> favicon]

\* The record saveStateToLocalStorage builds (the timestamp is left out).
SaveRecord(html, css, images, favicon) ==
    [present |-> TRUE, parses |-> TRUE, html |-> html, css |-> css,
     images |-> images, favicon |-> favicon]

\* Variant: the retry drops the images but keeps the favicon.
StrippedRecordKeepFavicon(html, css, images, favicon) ==
    SaveRecord(html, css, <<>>, favicon)

\* The record of the retry: data.images = []; data.favicon = null.
StrippedRecord(html, css, images, favicon) ==
    SaveRecord(html, css, <<>>, NoFavicon)

\* saveStateToLocalStorage returns before building a record.
SaveSkipped(html, images) == html.blank /\ Len(images) = 0

\* saveStateToLocalStorage: what the store holds afterwards, by which of
\* the two setItem calls throw.
SaveStateToLocalStorage(old, html, css, images, favicon, outcome) ==
    IF SaveSkipped(html, images) THEN old
    ELSE CASE outcome = "stored" -> SaveRecord(html, css, images, favicon)
           [] outcome = "stripped" -> StrippedRecord(html, css, images, favicon)
           [] OTHER -> old

\* The records saveStateToLocalStorage hands to setItem, in call order:
\* the retry is made only after the first call threw.
SetItemCalls(html, css, images, favicon, outcome) ==
    IF SaveSkipped(html, images) THEN <<>>
    ELSE IF outcome = "stored"
         THEN << SaveRecord(html, css, images, favicon) >>
         ELSE << SaveRecord(html, css, images, favicon),
                 StrippedRecord(html, css, images, favicon) >>

\* The debounce timer fires: timers of equal delay fire oldest first, so
\* autoSaveTimeout still names a pending timer if another one is left.
TimerFire(outcome) ==
    /\ timers > 0
    /\ timers' = timers - 1
    /\ autoSaveTimeout' = (timers - 1 > 0)
    /\ burst' = 0
    /\ store' = SaveStateToLocalStorage(store, htmlEditor, cssEditor,
                                        latestGeneratedImages, latestFavicon,
                                        outcome)
    /\ setItemLog' = SetItemCalls(htmlEditor, cssEditor,
                                  latestGeneratedImages, latestFavicon, outcome)
    /\ saveResult' = IF SaveSkipped(htmlEditor, latestGeneratedImages)
                     THEN "skipped" ELSE outcome
    /\ UNCHANGED <<docVars, histVars, previewSrcdoc, ui, loaded, runVars,
                   preRun, runOutcome, runs, preRunUi, reloads, edits, lastOp, script,
                   active, alertMsg, exportVars>>

\* Variant: the restore leaves the input section as it is.
RestoreUiKeepsInput(u, h, idx) ==
    [u EXCEPT !.resultHidden = FALSE,
              !.undoDisabled = UndoDisabled(h, idx),
              !.redoDisabled = RedoDisabled(h, idx)]

\* The end of the restore: the input section is hidden, the result
\* container shown, and pushHistoryState updates the two buttons.
RestoreUi(u, h, idx) ==
    [u EXCEPT !.inputHidden = TRUE, !.resultHidden = FALSE,
              !.undoDisabled = UndoDisabled(h, idx),
              !.redoDisabled = RedoDisabled(h, idx)]

\* window load: loadStateFromLocalStorage.  The event fires once, at
\* startup: here before the first generation run is started.  A text that
\* JSON.parse rejects and a record with empty markup change nothing.  With
\* an images field that is not an array, latestGeneratedImages.forEach
\* throws after the images, the favicon and both editors were assigned; the
\* catch logs, and the preview, the sections and the history stay as they
\* were.
Load ==
    /\ ~loaded
    /\ runs = 0
    /\ loaded' = TRUE
    /\ IF store.present /\ store.parses /\ ~store.html.blank
       THEN IF store.images = NotAList
            THEN /\ latestGeneratedImages' = store.images
                 /\ latestFavicon' = store.favicon
                 /\ htmlEditor' = store.html
                 /\ cssEditor' = store.css
                 /\ autoSaveTimeout' = TRUE
                 /\ timers' = TriggerAutoSave(
                                 TriggerAutoSave(timers, autoSaveTimeout), TRUE)
                 /\ burst' = BurstAfter(burst, 2)
                 /\ UNCHANGED <<histVars, previewSrcdoc, ui, script>>
            ELSE LET pushed == PushHistoryState(<<>>, historyIndex,
                                                store.html, store.css)
                 IN  /\ latestGeneratedImages' = store.images
                     /\ latestFavicon' = store.favicon
                     /\ htmlEditor' = store.html
                     /\ cssEditor' = store.css
                     /\ previewSrcdoc' =
                          UpdatePreview(store.html, store.css, store.images,
                                        store.favicon)
                     /\ history' = pushed.history
                     /\ historyIndex' = pushed.historyIndex
                     /\ ui' = RestoreUi(ui, pushed.history,
                                         pushed.historyIndex)
                     /\ autoSaveTimeout' = TRUE
                     /\ timers' = TriggerAutoSave(
                                     TriggerAutoSave(timers, autoSaveTimeout),
                                     TRUE)
                     /\ burst' = BurstAfter(burst, 2)
                     /\ script' = ScriptStep(script, "reset", store.html,
                                             store.css)
       ELSE UNCHANGED <<docVars, histVars, previewSrcdoc, ui, autoSaveTimeout,
                        timers, burst, script>>
    /\ preRun' = NoDoc
    /\ lastOp' = "other"
    /\ UNCHANGED <<store, runVars, runOutcome, runs, preRunUi, reloads, edits,
                   active, alertMsg, exportVars, saveObs>>

\* The page is loaded anew: the script starts from its initial state and
\* the store keeps its item.  Pending timers and calls in flight are gone
\* with the old page.
Reload ==
    /\ reloads < MaxReloads
    /\ reloads' = reloads + 1
    /\ htmlEditor' = BlankHtml
    /\ cssEditor' = NoText
    /\ latestGeneratedImages' = <<>>
    /\ latestFavicon' = NoFavicon
    /\ history' = <<>>
    /\ historyIndex' = -1
    /\ previewSrcdoc' = BlankHtml
    /\ ui' = [generateBtnDisabled |-> FALSE, loadingHidden |-> TRUE,
              inputHidden |-> FALSE, resultHidden |-> TRUE,
              undoDisabled |-> TRUE, redoDisabled |-> TRUE,
              exportBtnDisabled |-> FALSE]
    /\ autoSaveTimeout' = FALSE
    /\ loaded' = FALSE
    /\ pc' = "idle"
    /\ websiteData' = NoData
    /\ structuredCall' = "none"
    /\ refineCall' = <<>>
    /\ improvedPrompts' = <<>>
    /\ faviconCall' = "none"
    /\ imageCall' = <<>>
    /\ results' = <<>>
    /\ preRun' = NoDoc
    /\ runOutcome' = "none"
    /\ runs' = 0
    /\ edits' = 0
    /\ lastOp' = "other"
    /\ script' = <<>>
    /\ active' = 0
    /\ alertMsg' = NoText
    /\ exportPc' = "idle"
    /\ exportDoc' = BlankHtml
    /\ exportImages' = <<>>
    /\ exportIdx' = 0
    /\ exportFavicon' = NoFavicon
    /\ zip' = NoZip
    /\ download' = NoZip
    /\ exportOutcome' = "none"
    /\ exporting' = 0
    /\ timers' = 0
    /\ burst' = 0
    /\ preRunUi' = [inputHidden |-> FALSE, resultHidden |-> TRUE]
    /\ UNCHANGED <<store, saveObs>>

\* ------------------------------------------------------------------ specification
\* Steps of generateWebsite, with every response and every call outcome.
PipelineStep ==
    \/ Submit
    \/ StructuredFail(FetchError)
    \/ \E d \in Responses : StructuredOk(d)
    \/ \E i \in 1..MaxPrompts, o \in Settled : RefineSettle(i, o)
    \/ \E o \in Settled : FaviconSettle(o)
    \/ \E i \in 1..MaxPrompts, o \in Settled : ImageSettle(i, o)
    \/ Publish

\* Steps of a generation in which every call succeeds, for the responses
\* with at most one image prompt.
SuccessfulRunStep ==
    \/ Submit
    \/ \E d \in {r \in Responses : Len(r.imagePrompts) <= 1} : StructuredOk(d)
    \/ \E i \in 1..MaxPrompts : RefineSettle(i, "ok")
    \/ FaviconSettle("ok")
    \/ \E i \in 1..MaxPrompts : ImageSettle(i, "ok")
    \/ Publish

EditStep ==
    \/ \E h \in UserHtml : EditHtml(h)
    \/ \E c \in UserCss : EditCss(c)

HistoryStep ==
    \/ UpdatePreviewClick
    \/ UndoClick
    \/ RedoClick

SaveStep == \E o \in {"stored", "stripped", "dropped"} : TimerFire(o)

ExportStep ==
    \/ ExportClick
    \/ \E o \in Settled : ExportImageFetched(o)
    \/ \E o \in Settled : ExportFaviconFetched(o)
    \/ \E o \in Settled : ExportZipDone(o)

\* The whole program.
Next ==
    \/ SubmitInvalid
    \/ PipelineStep
    \/ EditStep
    \/ HistoryStep
    \/ SaveStep
    \/ ExportStep
    \/ Load
    \/ \E err \in Errors : StructuredFail(err)
    \/ Reload

Spec == Init /\ [][Next]_vars

\* The pipeline with every response and every failure, over the document a
\* load or an earlier run left; the user does not touch the editors.
NextPipeline ==
    \/ PipelineStep
    \/ Load

SpecPipeline == Init /\ [][NextPipeline]_vars

\* The history under any interleaving of restore, successful generation,
\* typing, preview refresh, undo and redo.
NextHistory ==
    \/ SuccessfulRunStep
    \/ EditStep
    \/ HistoryStep
    \/ Load

SpecHistory == Init /\ [][NextHistory]_vars

\* Responses of the runs that precede an export: those of Responses and
\* one whose list names an id with an element and an id without.
ExportResponses == Responses \cup {ResponseB(MaxPrompts)}

\* Export of the document a load, one run without failed refinement or
\* image calls, or typing left, with every outcome of the fetches; the
\* export may overlap the run, and the user may submit a description the
\* validation refuses.
NextExport ==
    \/ SubmitInvalid
    \/ (runs = 0 /\ Submit)
    \/ StructuredFail(FetchError)
    \/ \E d \in ExportResponses : StructuredOk(d)
    \/ \E i \in 1..MaxPrompts : RefineSettle(i, "ok")
    \/ \E o \in Settled : FaviconSettle(o)
    \/ \E i \in 1..MaxPrompts : ImageSettle(i, "ok")
    \/ Publish
    \/ EditStep
    \/ ExportStep
    \/ Load

SpecExport == Init /\ [][NextExport]_vars

\* Responses with the longest prompt list; in the second one id has no
\* element and another has two.
ResolverResponses == {ResponseA(MaxPrompts), ResponseB(MaxPrompts)}

\* The preview of the document a load, one run with either outcome of the
\* favicon call, typing, a preview refresh, undo or redo left; the editors
\* and the history buttons are used while no run is in flight (the result
\* container is hidden during a run).
NextResolver ==
    \/ (runs = 0 /\ Submit)
    \/ \E d \in ResolverResponses : StructuredOk(d)
    \/ \E i \in 1..MaxPrompts : RefineSettle(i, "ok")
    \/ \E o \in Settled : FaviconSettle(o)
    \/ \E i \in 1..MaxPrompts : ImageSettle(i, "ok")
    \/ Publish
    \/ (pc = "idle" /\ EditStep)
    \/ (pc = "idle" /\ HistoryStep)
    \/ Load

SpecResolver == Init /\ [][NextResolver]_vars

\* Steps of the one run of the auto-save slices: every call succeeds, for
\* the responses with at most one image prompt.
OneRunStep ==
    \/ (runs = 0 /\ Submit)
    \/ \E d \in {r \in Responses : Len(r.imagePrompts) <= 1} : StructuredOk(d)
    \/ \E i \in 1..MaxPrompts : RefineSettle(i, "ok")
    \/ FaviconSettle("ok")
    \/ \E i \in 1..MaxPrompts : ImageSettle(i, "ok")
    \/ Publish

\* Auto-save of the document a load, one run or typing left, with every
\* outcome of the store writes.
NextPersist ==
    \/ OneRunStep
    \/ EditStep
    \/ SaveStep
    \/ Load

SpecPersist == Init /\ [][NextPersist]_vars

\* The debounce timer under every handler that changes an editor: load, one
\* run, typing, undo and redo (used while no run is in flight); the store
\* accepts every write.
NextDebounce ==
    \/ OneRunStep
    \/ (pc = "idle" /\ EditStep)
    \/ (pc = "idle" /\ HistoryStep)
    \/ TimerFire("stored")
    \/ Load

SpecDebounce == Init /\ [][NextDebounce]_vars

\* The debounce slice with the timer that setTimeout armed firing after its
\* delay: a pending timer is fired by the event loop unless clearTimeout
\* removed it, and the store accepts the write.
SpecSaveFair ==
    Init /\ [][NextDebounce]_vars /\ WF_vars(TimerFire("stored"))

\* ------------------------------------------------------------------ properties
\* C1: a run whose structured generation succeeded is never aborted, and the
\* image list it publishes has one entry per imagePrompts item of the
\* response, with the same ids in the same order, whichever refinement and
\* image calls failed.
C1_OneAssetPerPrompt ==
    /\ structuredCall = "ok" => runOutcome # "aborted"
    /\ runOutcome = "success" =>
         /\ Len(latestGeneratedImages) = Len(websiteData.imagePrompts)
         /\ \A i \in 1..Len(websiteData.imagePrompts) :
               latestGeneratedImages[i].id = websiteData.imagePrompts[i].id

\* A published list of MaxPrompts entries after a failed refinement and a
\* failed render.
C1_Witness ==
    /\ runOutcome = "success"
    /\ Len(latestGeneratedImages) = MaxPrompts
    /\ \E i \in 1..Len(refineCall) : refineCall[i] = "failed"
    /\ \E i \in 1..Len(imageCall) : imageCall[i] = "failed"

\* C2: after a run aborted by the structured call, the editors, the image
\* list, the favicon and the history are what they were when the run
\* started.
C2_AbortLeavesDocument ==
    (runOutcome = "aborted" /\ preRun # NoDoc) => CurrentDoc = preRun

\* C3: while a run is suspended, the current markup, CSS, image list and
\* favicon are those of the document the run started from.
C3_NothingHalfApplied ==
    (pc # "idle" /\ preRun # NoDoc) =>
        /\ htmlEditor = preRun.html
        /\ cssEditor = preRun.css
        /\ latestGeneratedImages = preRun.images
        /\ latestFavicon = preRun.favicon

\* C4: a preview refresh pushes the editors' snapshot after the entries up
\* to the cursor and drops the ones after it, the cursor ending on the last
\* index; and after reset, push, push, undo, push the history is the reset
\* snapshot, the first pushed one and the last pushed one, cursor 2, redo
\* unavailable.
C4_PushTruncates ==
    /\ [][UpdatePreviewClick =>
            /\ history' = Append(SubSeq(history, 1, historyIndex + 1),
                                 [html |-> htmlEditor, css |-> cssEditor])
            /\ historyIndex' = Len(history') - 1]_vars
    /\ [](Len(script) = Len(ScriptShape) =>
            /\ history = << [html |-> script[1].html, css |-> script[1].css],
                            [html |-> script[2].html, css |-> script[2].css],
                            [html |-> script[5].html, css |-> script[5].css] >>
            /\ historyIndex = 2
            /\ ui.redoDisabled)

\* The scenario has run, with the dropped snapshot different from the one
\* pushed after the undo.
C4_Witness ==
    /\ Len(script) = Len(ScriptShape)
    /\ script[1].html # script[2].html
    /\ <<script[3].html, script[3].css>> # <<script[5].html, script[5].css>>

\* C5: an undo click with the cursor at 0 and a redo click with the cursor at
\* the last index change neither the history, the cursor, the editors nor
\* the preview.
C5_RefusedUndoRedo ==
    [][(\/ UndoClick /\ historyIndex = 0
        \/ RedoClick /\ historyIndex = Len(history) - 1)
       => UNCHANGED <<history, historyIndex, htmlEditor, cssEditor,
                      previewSrcdoc>>]_vars

\* Undo was clicked on the first of several snapshots.
C5_Witness ==
    /\ lastOp = "undoAtFirst"
    /\ historyIndex = 0
    /\ Len(history) >= 2

\* C6: whenever the history is not empty the cursor is one of its indices.
C6_CursorValid ==
    history # <<>> => historyIndex \in 0..(Len(history) - 1)

\* Restore, then a generation, then refreshes and an undo.
C6_Witness ==
    /\ loaded
    /\ store.present
    /\ runOutcome = "success"
    /\ Len(history) = MaxHist
    /\ historyIndex = 1

\* C7: refinement calls exist only once the structured call succeeded; image
\* calls exist only once every refinement call and the favicon call have
\* settled, each refinement promise holding its result.
C7_StageOrder ==
    /\ refineCall # <<>> => structuredCall = "ok"
    /\ (\E i \in 1..Len(imageCall) : imageCall[i] # "none") =>
         /\ \A j \in 1..Len(refineCall) : refineCall[j] \in Settled
         /\ faviconCall \in Settled

\* An image call is in flight after a refinement and the favicon failed.
C7_Witness ==
    /\ pc = "images"
    /\ \E i \in 1..Len(imageCall) : imageCall[i] = "inflight"
    /\ \E j \in 1..Len(refineCall) : refineCall[j] = "failed"
    /\ Len(refineCall) >= 2
    /\ faviconCall = "failed"

\* C8: at most one image call is in flight, and the call for an item is
\* issued only after the calls for all earlier items have settled.
C8_OneImageCallAtATime ==
    /\ Cardinality({i \in 1..Len(imageCall) : imageCall[i] = "inflight"}) <= 1
    /\ \A i \in 1..Len(imageCall) :
          imageCall[i] # "none" =>
              \A j \in 1..(i - 1) : imageCall[j] \in Settled

\* The second call is in flight after the first one settled.
C8_Witness ==
    /\ pc = "images"
    /\ Len(imageCall) >= 2
    /\ imageCall[1] \in Settled
    /\ imageCall[2] = "inflight"

\* C9: a failed refinement leaves its item as the response gave it, the
\* other items get their own refined prompt, no run with a failed refinement
\* is aborted, and the published entry of the item carries the original id
\* and short prompt.
C9_RefinementFallback ==
    /\ \A i \in 1..Len(refineCall) :
          /\ refineCall[i] = "failed" =>
                improvedPrompts[i] = websiteData.imagePrompts[i]
          /\ refineCall[i] = "ok" =>
                improvedPrompts[i] =
                    [id |-> websiteData.imagePrompts[i].id,
                     prompt |-> RefinedText(websiteData.imagePrompts[i].prompt)]
    /\ (\E i \in 1..Len(refineCall) : refineCall[i] = "failed") =>
          runOutcome # "aborted"
    /\ runOutcome = "success" =>
          \A i \in 1..Len(refineCall) :
             refineCall[i] = "failed" =>
                /\ i <= Len(latestGeneratedImages)
                /\ latestGeneratedImages[i].id = websiteData.imagePrompts[i].id
                /\ latestGeneratedImages[i].prompt =
                      websiteData.imagePrompts[i].prompt

\* A run succeeded with the first refinement failed and the second one not.
C9_Witness ==
    /\ runOutcome = "success"
    /\ Len(refineCall) >= 2
    /\ refineCall[1] = "failed"
    /\ refineCall[2] = "ok"
    /\ latestGeneratedImages[1].prompt = websiteData.imagePrompts[1].prompt

\* C10: no run with a failed image call is aborted, and in the published
\* list an item whose call failed keeps its id with the failure placeholder
\* as url, while an item whose call succeeded has a data reference.
C10_ImageFallback ==
    /\ (\E i \in 1..Len(imageCall) : imageCall[i] = "failed") =>
          runOutcome # "aborted"
    /\ runOutcome = "success" =>
          \A i \in 1..Len(imageCall) :
             /\ i <= Len(latestGeneratedImages)
             /\ latestGeneratedImages[i].id = websiteData.imagePrompts[i].id
             /\ imageCall[i] = "failed" =>
                   latestGeneratedImages[i].url = FailedUrl
             /\ imageCall[i] = "ok" =>
                   /\ IsDataUrl(latestGeneratedImages[i].url)
                   /\ latestGeneratedImages[i].url # FailedUrl

\* A run succeeded with one image failed and one rendered.
C10_Witness ==
    /\ runOutcome = "success"
    /\ Len(imageCall) >= 2
    /\ imageCall[1] = "failed"
    /\ imageCall[2] = "ok"
    /\ latestGeneratedImages[1].url = FailedUrl

\* C11: when the favicon call fails the recorded favicon is null and the
\* run goes on: it is never aborted, image rendering starts with its first
\* call in flight (or the delay, for an empty prompt list), and the run ends
\* in success with one image entry per prompt.
C11_FaviconFailureTolerated ==
    faviconCall = "failed" =>
        /\ latestFavicon = NoFavicon
        /\ runOutcome \in {"running", "success"}
        /\ pc \in {"images", "delay", "idle"}
        /\ pc = "images" => \E i \in 1..Len(imageCall) : imageCall[i] = "inflight"
        /\ pc = "idle" =>
              /\ runOutcome = "success"
              /\ Len(latestGeneratedImages) = Len(websiteData.imagePrompts)

\* A run that completed with images although its favicon call failed.
C11_Witness ==
    /\ faviconCall = "failed"
    /\ runOutcome = "success"
    /\ Len(latestGeneratedImages) >= 1
    /\ latestFavicon = NoFavicon

\* C12: the favicon call is issued only for a response that carries a
\* favicon prompt, and a run whose response carries none publishes a null
\* favicon.
C12_FaviconCallOnlyWithPrompt ==
    /\ faviconCall # "none" => websiteData.faviconPrompt # NoText
    /\ (runOutcome = "success" /\ websiteData.faviconPrompt = NoText) =>
          latestFavicon = NoFavicon

\* C13: at most one generation run is in flight; the generate button is
\* disabled exactly while a run is in flight, so it is enabled again after
\* every run, published or aborted.
C13_OneRunInFlight ==
    /\ active <= 1
    /\ ui.generateBtnDisabled <=> (active = 1)
    /\ (pc = "idle") <=> (active = 0)

\* A published run followed by an aborted one, the button enabled again.
C13_Witness ==
    /\ runs >= 2
    /\ active = 0
    /\ runOutcome = "aborted"
    /\ history # <<>>
    /\ ~loaded
    /\ ~ui.generateBtnDisabled

\* C14: an export click while the image list or the editor markup is empty
\* is refused before any work: the message is shown, the handler is not
\* suspended on any fetch, no archive is built or downloaded, and the export
\* button is not disabled.
C14_RejectedExport ==
    [][(ExportClick /\ (htmlEditor.blank \/ Len(latestGeneratedImages) = 0)) =>
          /\ alertMsg' = ExportFirstMsg
          /\ exportPc' = "idle"
          /\ zip' = zip
          /\ download' = download
          /\ exporting' = exporting
          /\ ~ui'.exportBtnDisabled]_vars

\* A refused export of a document that has markup but no images.
C14_Witness ==
    /\ exportOutcome = "rejected"
    /\ alertMsg = ExportFirstMsg
    /\ ~htmlEditor.blank
    /\ latestGeneratedImages = <<>>
    /\ exportPc = "idle"
    /\ download = NoZip

\* C15: at most one export is running; the export button is disabled
\* exactly while one is, so it is enabled again after an export that
\* succeeded and after one that failed.
C15_OneExportAtATime ==
    /\ exporting <= 1
    /\ ui.exportBtnDisabled <=> (exporting = 1)
    /\ (exportPc = "idle") <=> (exporting = 0)

\* An export that failed after an earlier one had downloaded its archive.
C15_Witness ==
    /\ download # NoZip
    /\ exportOutcome = "failed"
    /\ exporting = 0
    /\ ~ui.exportBtnDisabled

\* C16 as stated: the archive of a successful export holds index.html, a
\* file images/<sanitized id>.jpeg for every image of the list with the
\* element of that id pointing to it, and images/favicon.jpeg with the icon
\* link pointing to it whenever there is a favicon.
C16_ArchiveComplete ==
    exportOutcome = "done" =>
        /\ ~download.indexHtml.blank
        /\ \A i \in 1..Len(exportImages) :
              /\ \E f \in download.images :
                    f.path = ExportPath(exportImages[i].id)
              /\ \E k \in 1..Len(download.indexHtml.imgs) :
                    /\ download.indexHtml.imgs[k].id = exportImages[i].id
                    /\ download.indexHtml.imgs[k].src =
                          ExportPath(exportImages[i].id)
        /\ exportFavicon # NoFavicon =>
              /\ \E f \in download.images : f.path = FaviconPath
              /\ download.indexHtml.icon = FaviconPath

\* C16 amended: the archive of a successful export holds index.html; for
\* every image of the list whose id has an element in the markup a file
\* images/<sanitized id>.jpeg, with that element pointing to it; when there
\* are a favicon and an icon link, images/favicon.jpeg with the favicon's
\* payload and the link pointing to it; and no other file.
C16_ArchiveOfMatchedAssets ==
    exportOutcome = "done" =>
        /\ ~download.indexHtml.blank
        /\ \A i \in 1..Len(exportImages) :
              (\E k \in 1..Len(download.indexHtml.imgs) :
                  download.indexHtml.imgs[k].id = exportImages[i].id) =>
              /\ \E f \in download.images :
                    f.path = ExportPath(exportImages[i].id)
              /\ \E k \in 1..Len(download.indexHtml.imgs) :
                    /\ download.indexHtml.imgs[k].id = exportImages[i].id
                    /\ download.indexHtml.imgs[k].src =
                          ExportPath(exportImages[i].id)
        /\ (exportFavicon # NoFavicon /\ download.indexHtml.icon # Absent) =>
              /\ [path |-> FaviconPath, payload |-> exportFavicon.url]
                    \in download.images
              /\ download.indexHtml.icon = FaviconPath
        /\ \A f \in download.images :
              \/ f.path = FaviconPath /\ exportFavicon # NoFavicon
                                      /\ download.indexHtml.icon # Absent
              \/ \E i \in 1..Len(exportImages) :
                    /\ f.path = ExportPath(exportImages[i].id)
                    /\ \E k \in 1..Len(download.indexHtml.imgs) :
                          download.indexHtml.imgs[k].id = exportImages[i].id

\* A downloaded archive with the favicon and the file of one image, for a
\* list in which another image has no element.
C16_Witness ==
    /\ exportOutcome = "done"
    /\ \E f \in download.images : f.path = FaviconPath
    /\ \E i, j \in 1..Len(exportImages) :
          /\ \E f \in download.images : f.path = ExportPath(exportImages[i].id)
          /\ \A k \in 1..Len(download.indexHtml.imgs) :
                download.indexHtml.imgs[k].id # exportImages[j].id

\* The number of style elements in the head.
HeadStyles(html) == Len(SelectSeq(html.styles, LAMBDA st : st.loc = "head"))

\* C17 as stated: resolution is idempotent.  populateUI applied to its own
\* output gives the same markup and the same CSS as applied once, and so
\* does updatePreview applied to its own output with the same CSS, assets
\* and favicon; neither leaves more than the one style, meta or link
\* element it looks for.
C17_ResolveIdempotent ==
    LET once == SplitDocument(websiteData.htmlContent,
                              websiteData.metaDescription,
                              websiteData.metaKeywords, latestFavicon)
        twice == SplitDocument(once.html, websiteData.metaDescription,
                               websiteData.metaKeywords, latestFavicon)
        out == UpdatePreview(htmlEditor, cssEditor, latestGeneratedImages,
                             latestFavicon)
        again == UpdatePreview(out, cssEditor, latestGeneratedImages,
                               latestFavicon)
    IN  /\ twice.html = once.html
        /\ twice.css = once.css
        /\ again = out
        /\ HeadStyles(again) = 1

\* C17 amended: updatePreview applied to its own output with the same CSS,
\* assets and favicon gives the same markup, with exactly one head style and
\* no meta or link element added.  populateUI applied to its own output
\* leaves the meta, icon-link and placeholder elements as they are and adds
\* no style, meta or link element, but it takes the next style block out as
\* the CSS: its markup is the same only when its output holds no style
\* block, and the CSS is then empty.
C17_RenderIdempotent ==
    LET m == websiteData.htmlContent
        once == SplitDocument(m, websiteData.metaDescription,
                              websiteData.metaKeywords, latestFavicon)
        twice == SplitDocument(once.html, websiteData.metaDescription,
                               websiteData.metaKeywords, latestFavicon)
        out == UpdatePreview(htmlEditor, cssEditor, latestGeneratedImages,
                             latestFavicon)
        again == UpdatePreview(out, cssEditor, latestGeneratedImages,
                               latestFavicon)
    IN  /\ again = out
        /\ HeadStyles(out) = 1
        /\ out.descs = htmlEditor.descs
        /\ out.kws = htmlEditor.kws
        /\ out.icons = htmlEditor.icons
        /\ once.html.descs = (IF m.descs = 0 /\ once.html.desc # Absent
                               THEN 1 ELSE m.descs)
        /\ once.html.kws = (IF m.kws = 0 /\ once.html.kw # Absent
                             THEN 1 ELSE m.kws)
        /\ once.html.icons = (IF m.icons = 0 /\ once.html.icon # Absent
                               THEN 1 ELSE m.icons)
        /\ twice.html.descs = once.html.descs
        /\ twice.html.kws = once.html.kws
        /\ twice.html.icons = once.html.icons
        /\ twice.html.desc = once.html.desc
        /\ twice.html.kw = once.html.kw
        /\ twice.html.icon = once.html.icon
        /\ twice.html.imgs = once.html.imgs
        /\ Len(twice.html.styles) <= Len(once.html.styles)
        /\ Len(once.html.styles) <= Len(m.styles)
        /\ once.html.styles = <<>> =>
              (twice.html = once.html /\ twice.css = NoText)

\* A published document whose markup came with two style blocks, a meta and
\* an icon link, resolved with a favicon and at least one image, the preview
\* showing it.
C17_Witness ==
    /\ runOutcome = "success"
    /\ Len(websiteData.htmlContent.styles) >= 2
    /\ websiteData.htmlContent.descs = 1
    /\ websiteData.htmlContent.icons = 1
    /\ latestFavicon # NoFavicon
    /\ Len(latestGeneratedImages) >= 1
    /\ previewSrcdoc = UpdatePreview(htmlEditor, cssEditor,
                                     latestGeneratedImages, latestFavicon)

\* What the preview out must be for the markup html and the image list: the
\* same elements in the same order; the first element of an id that some
\* image carries shows an image of that id; every other element keeps its
\* src.
ResolvedFrom(html, images, out) ==
    /\ Len(out.imgs) = Len(html.imgs)
    /\ \A k \in 1..Len(html.imgs) :
          /\ out.imgs[k].id = html.imgs[k].id
          /\ IF /\ \E i \in 1..Len(images) : images[i].id = html.imgs[k].id
                /\ \A j \in 1..(k - 1) : html.imgs[j].id # html.imgs[k].id
             THEN \E i \in 1..Len(images) :
                     /\ images[i].id = html.imgs[k].id
                     /\ out.imgs[k].src = images[i].url
             ELSE out.imgs[k].src = html.imgs[k].src

\* C18: every handler that draws the preview (publication, preview refresh,
\* undo, redo, load) completes and leaves a preview in which an image whose
\* id matches no element has created or changed nothing, and every image
\* whose id matches an element is shown by it.
C18_UnmatchedSkipped ==
    [][(\/ Publish
        \/ UpdatePreviewClick
        \/ (UndoClick /\ historyIndex' # historyIndex)
        \/ (RedoClick /\ historyIndex' # historyIndex)
        \/ (Load /\ store.present /\ ~store.html.blank)) =>
          ResolvedFrom(htmlEditor', latestGeneratedImages', previewSrcdoc')]_vars

\* A published preview of a list in which one image has no element and
\* another is shown by its element.
C18_Witness ==
    /\ runOutcome = "success"
    /\ Len(previewSrcdoc.imgs) = Len(htmlEditor.imgs)
    /\ \E i, j \in 1..Len(latestGeneratedImages) :
          /\ \A k \in 1..Len(htmlEditor.imgs) :
                htmlEditor.imgs[k].id # latestGeneratedImages[i].id
          /\ \E k \in 1..Len(previewSrcdoc.imgs) :
                /\ previewSrcdoc.imgs[k].id = latestGeneratedImages[j].id
                /\ previewSrcdoc.imgs[k].src = latestGeneratedImages[j].url

\* C19: at most one debounce timer is pending, and one is pending exactly
\* when an editor changed since the last timer fired, however many changes
\* there were; when it fires no timer is left, so the changes of a burst
\* give one save, and that save reads the editors as the last change left
\* them.
C19_OneTimerPerBurst ==
    /\ [](/\ timers <= 1
          /\ (timers = 1) <=> (burst > 0)
          /\ autoSaveTimeout <=> (timers = 1))
    /\ [][TimerFire("stored") =>
            /\ timers' = 0
            /\ burst' = 0
            /\ setItemLog' # <<>> =>
                  /\ setItemLog'[1].html = htmlEditor
                  /\ setItemLog'[1].css = cssEditor]_vars

\* Two changes typed by the user and no timer fired since: one timer pending.
C19_Witness ==
    /\ edits >= 2
    /\ burst >= 2
    /\ timers = 1
    /\ saveResult # "none"

\* C20: a save makes at most two store writes; the second is made only
\* after the first failed and carries the same markup and CSS with an empty
\* image list and a null favicon; the store then holds the record of the
\* write that succeeded, or what it held before if none did.  A save shows
\* no alert and changes nothing on the page.
C20_SaveRetry ==
    /\ [](/\ Len(setItemLog) <= 2
          /\ saveResult = "stored" =>
                (Len(setItemLog) = 1 /\ store = setItemLog[1])
          /\ saveResult \in {"stripped", "dropped"} => Len(setItemLog) = 2
          /\ saveResult = "stripped" => store = setItemLog[2]
          /\ Len(setItemLog) = 2 =>
                setItemLog[2] = [setItemLog[1] EXCEPT !.images = <<>>,
                                                      !.favicon = NoFavicon])
    /\ [][SaveStep =>
            /\ alertMsg' = alertMsg
            /\ ui' = ui
            /\ saveResult' \in {"dropped", "skipped"} => store' = store
            /\ setItemLog' # <<>> =>
                  setItemLog'[1] =
                     [present |-> TRUE, parses |-> TRUE,
                      html |-> htmlEditor, css |-> cssEditor,
                      images |-> latestGeneratedImages,
                      favicon |-> latestFavicon]]_vars

\* A save whose first write failed and whose retry stored the markup of a
\* document that has images and a favicon.
C20_Witness ==
    /\ saveResult = "stripped"
    /\ Len(setItemLog) = 2
    /\ setItemLog[1].images # <<>>
    /\ setItemLog[1].favicon # NoFavicon
    /\ store.images = <<>>
    /\ store.favicon = NoFavicon
    /\ store.html = setItemLog[1].html

\* C24: the step that publishes a generated document leaves the history
\* with exactly one snapshot, the html and css now in the editors, and the
\* cursor at 0, whatever the history held before; each preview refresh
\* appends one snapshot of the editors right behind the cursor and moves the
\* cursor onto it.
C24_HistoryResetByGeneration ==
    /\ [][Publish =>
            /\ history' = << [html |-> htmlEditor', css |-> cssEditor'] >>
            /\ historyIndex' = 0]_vars
    /\ [][UpdatePreviewClick =>
            /\ Len(history') = historyIndex + 2
            /\ historyIndex' = historyIndex + 1
            /\ history'[Len(history')] =
                  [html |-> htmlEditor, css |-> cssEditor]
            /\ \A k \in 1..(historyIndex + 1) : history'[k] = history[k]]_vars

\* A second document was generated, replacing the history of the first,
\* and one preview refresh followed.
C24_Witness ==
    /\ runs = 2
    /\ runOutcome = "success"
    /\ Len(history) = 2
    /\ historyIndex = 1
    /\ Len(script) = 2

\* C25: an undo click, a redo click and a preview refresh (the push) leave
\* the recorded image list and the favicon as they were, and every snapshot
\* of the history holds an html and a css field and nothing else.
C25_HistoryLeavesAssets ==
    /\ [](\A k \in 1..Len(history) : DOMAIN history[k] = {"html", "css"})
    /\ [][(UndoClick \/ RedoClick \/ UpdatePreviewClick) =>
            /\ latestGeneratedImages' = latestGeneratedImages
            /\ latestFavicon' = latestFavicon]_vars

\* An undo has moved the cursor back in a document that has recorded images
\* and a favicon.
C25_Witness ==
    /\ lastOp = "undo"
    /\ historyIndex < Len(history) - 1
    /\ latestGeneratedImages # <<>>
    /\ latestFavicon # NoFavicon

\* C26: an undo click with the cursor above 0 moves the cursor down by one
\* and a redo click with the cursor below the last index moves it up by
\* one; in both cases the history sequence stays as it was, both editors
\* hold the html and css of the snapshot at the new cursor, and the preview
\* shows the rendering of that snapshot.
C26_UndoRedoStep ==
    /\ [][(UndoClick /\ historyIndex > 0) =>
            /\ historyIndex' = historyIndex - 1
            /\ history' = history
            /\ htmlEditor' = history[historyIndex].html
            /\ cssEditor' = history[historyIndex].css
            /\ previewSrcdoc' =
                  UpdatePreview(history[historyIndex].html,
                                history[historyIndex].css,
                                latestGeneratedImages, latestFavicon)]_vars
    /\ [][(RedoClick /\ historyIndex < Len(history) - 1) =>
            /\ historyIndex' = historyIndex + 1
            /\ history' = history
            /\ htmlEditor' = history[historyIndex + 2].html
            /\ cssEditor' = history[historyIndex + 2].css
            /\ previewSrcdoc' =
                  UpdatePreview(history[historyIndex + 2].html,
                                history[historyIndex + 2].css,
                                latestGeneratedImages, latestFavicon)]_vars

\* A redo has moved the cursor to a snapshot that differs from the one
\* before it, and the editors hold it.
C26_Witness ==
    /\ lastOp = "redo"
    /\ historyIndex >= 1
    /\ history[historyIndex + 1] # history[historyIndex]
    /\ htmlEditor = history[historyIndex + 1].html
    /\ cssEditor = history[historyIndex + 1].css

\* C27: after every step that changes the history sequence or the cursor
\* (a push, an undo, a redo, the reset by a generation, the restore from the
\* store) the undo button is disabled exactly when the cursor is at most 0
\* and the redo button exactly when the cursor is at least length - 1.
C27_ButtonsFollowCursor ==
    [][(history' # history \/ historyIndex' # historyIndex) =>
          /\ ui'.undoDisabled = (historyIndex' <= 0)
          /\ ui'.redoDisabled = (historyIndex' >= Len(history') - 1)]_vars

\* After an undo in a history of three snapshots the cursor is in the
\* middle: both buttons are enabled.
C27_Witness ==
    /\ lastOp = "undo"
    /\ Len(history) = 3
    /\ historyIndex = 1
    /\ ~ui.undoDisabled
    /\ ~ui.redoDisabled

\* C28: the step that ends a run on a fatal error leaves the input section
\* shown, the loading panel hidden and the generate button enabled, and the
\* result container hidden exactly when it was hidden as the run started.
C28_UiRestoredAfterFailure ==
    [][(\E err \in Errors : StructuredFail(err)) =>
          /\ ~ui'.inputHidden
          /\ ui'.loadingHidden
          /\ ~ui'.generateBtnDisabled
          /\ ui'.resultHidden = preRunUi.resultHidden]_vars

\* ------------------------------------------------------------------ the classifier slice
\* Runs whose structured call rejects with each of the errors, between
\* editor changes and the restore from the store.
NextClassifier ==
    \/ Submit
    \/ \E err \in Errors : StructuredFail(err)
    \/ (pc = "idle" /\ EditStep)
    \/ Load

SpecClassifier == Init /\ [][NextClassifier]_vars

\* C29: the alert of a failed run is the text of the first category, in the
\* order authentication, quota, overload, content policy, malformed
\* response, network, whose signature the error text matches; it is the
\* generic text, which differs from the six others, exactly when no
\* signature matches.
C29_FirstMatchingCategory ==
    [][\A err \in Errors :
          StructuredFail(err) =>
             LET texts == << AuthMsg, QuotaMsg, OverloadMsg, SafetyMsg,
                             FormatMsg, NetworkMsg >>
                 generic == GenericMsg(ErrorText(err))
                 hits == {k \in 1..6 : SignaturesOf[err][k]}
             IN  /\ hits # {} =>
                       \E k \in hits : /\ \A j \in hits : k <= j
                                       /\ alertMsg' = texts[k]
                 /\ (alertMsg' = generic) <=> (hits = {})
                 /\ \A k \in 1..6 : texts[k] # generic
                 /\ \A j, k \in 1..6 : j # k => texts[j] # texts[k]]_vars

\* The second run of a behaviour has failed and its alert is the
\* authentication text.
C29_Witness ==
    /\ runOutcome = "aborted"
    /\ alertMsg = AuthMsg
    /\ runs = 2

\* ------------------------------------------------------------------ the restore slice
\* Sessions over every kind of stored item: the restore at startup, one
\* run, typing, auto-save with every outcome of the store writes, and a
\* page reload that starts the next session on what the last one stored.
InitLoad == InitMemory /\ store \in StoredRecords

NextLoad ==
    \/ Load
    \/ OneRunStep
    \/ EditStep
    \/ SaveStep
    \/ Reload

SpecLoad == InitLoad /\ [][NextLoad]_vars

\* C21: when the restore at startup follows a save that built a record of
\* the document d (none of its steps raises to the caller), the markup, the
\* CSS and the image list in memory afterwards are those of d.
C21_RoundTrip ==
    [][(Load /\ saveResult \in {"stored", "stripped", "dropped"}) =>
          /\ htmlEditor' = setItemLog[1].html
          /\ cssEditor' = setItemLog[1].css
          /\ latestGeneratedImages' = setItemLog[1].images]_vars

\* C21, with the two conditions the code needs: the first record a save
\* hands to the store holds the markup, the CSS and the image list in
\* memory; and when the restore at startup follows a save whose first
\* store write succeeded, of a document d with non-empty markup, the markup,
\* the CSS and the image list in memory afterwards are those of d.
C21_RoundTripOfStoredMarkup ==
    /\ [][(SaveStep /\ setItemLog' # <<>>) =>
            /\ setItemLog'[1].html = htmlEditor
            /\ setItemLog'[1].css = cssEditor
            /\ setItemLog'[1].images = latestGeneratedImages]_vars
    /\ [][(Load /\ saveResult = "stored" /\ ~setItemLog[1].html.blank) =>
            /\ htmlEditor' = setItemLog[1].html
            /\ cssEditor' = setItemLog[1].css
            /\ latestGeneratedImages' = setItemLog[1].images]_vars

\* After a reload the restore has rebuilt a document with images that the
\* session before had changed and saved.
C21_Witness ==
    /\ reloads = 1
    /\ loaded
    /\ edits = 0
    /\ saveResult = "stored"
    /\ store = setItemLog[1]
    /\ store.html # EarlierRecord.html
    /\ store.images # <<>>
    /\ htmlEditor = store.html
    /\ cssEditor = store.css
    /\ latestGeneratedImages = store.images

\* C22: the restore of a stored record that parses, has non-empty markup
\* and well-formed fields puts the record's markup, CSS, image list and
\* favicon in memory, leaves the history with exactly one snapshot, the
\* restored html and css, and the cursor at 0, and shows the result
\* container with the input section hidden.
C22_RestoreApplied ==
    [][(Load /\ store.present /\ store.parses /\ ~store.html.blank
             /\ store.images # NotAList) =>
          /\ htmlEditor' = store.html
          /\ cssEditor' = store.css
          /\ latestGeneratedImages' = store.images
          /\ latestFavicon' = store.favicon
          /\ history' = << [html |-> store.html, css |-> store.css] >>
          /\ historyIndex' = 0
          /\ ~ui'.resultHidden
          /\ ui'.inputHidden]_vars

\* The restore has applied a record with images and a favicon that the
\* session before the reload saved.
C22_Witness ==
    /\ reloads = 1
    /\ loaded
    /\ edits = 0
    /\ runs = 0
    /\ saveResult = "stored"
    /\ latestFavicon # NoFavicon
    /\ latestFavicon = store.favicon
    /\ latestGeneratedImages # <<>>
    /\ history = << [html |-> store.html, css |-> store.css] >>
    /\ historyIndex = 0
    /\ ui.inputHidden
    /\ ~ui.resultHidden

\* C23: the restore of a store that holds no item, a text that does not
\* parse, a record with empty markup or a record whose image list is not a
\* list shows no alert and leaves the editors, the image list, the favicon,
\* the history and the sections as they were.
C23_RejectedRecordIgnored ==
    [][(Load /\ (\/ ~store.present
                 \/ ~store.parses
                 \/ store.html.blank
                 \/ store.images = NotAList)) =>
          /\ alertMsg' = alertMsg
          /\ UNCHANGED <<htmlEditor, cssEditor, latestGeneratedImages,
                         latestFavicon, history, historyIndex>>
          /\ ui'.inputHidden = ui.inputHidden
          /\ ui'.resultHidden = ui.resultHidden]_vars

\* ------------------------------------------------------------------ runs under settling calls
\* Every call a run awaits settles and the delay before populateUI ends:
\* a step that settles a pending call or ends the delay is taken when it
\* stays possible.
RunProgress ==
    \/ StructuredFail(FetchError)
    \/ \E d \in Responses : StructuredOk(d)
    \/ \E i \in 1..MaxPrompts, o \in Settled : RefineSettle(i, o)
    \/ \E o \in Settled : FaviconSettle(o)
    \/ \E i \in 1..MaxPrompts, o \in Settled : ImageSettle(i, o)
    \/ Publish

\* One run from either initial store, before or after the restore.
NextRun ==
    \/ (runs = 0 /\ Submit)
    \/ RunProgress
    \/ Load

SpecRunFair == Init /\ [][NextRun]_vars /\ WF_vars(RunProgress)

\* C30: a run in flight leads to a state in which no run is in flight, the
\* loading panel is hidden and the generate button is enabled; and the
\* step that ends a run, by publishing or by the fatal error, leaves the
\* loading panel hidden and the generate button enabled.
C30_RunEnds ==
    /\ (pc # "idle") ~> (/\ pc = "idle"
                         /\ ui.loadingHidden
                         /\ ~ui.generateBtnDisabled)
    /\ [][(pc # "idle" /\ pc' = "idle") =>
            /\ ui'.loadingHidden
            /\ ~ui'.generateBtnDisabled
            /\ runOutcome' \in {"success", "aborted"}]_vars

\* A run has ended by publishing a document one of whose image calls
\* failed; the loading panel is hidden and the button enabled.
C30_Witness ==
    /\ runs = 1
    /\ pc = "idle"
    /\ runOutcome = "success"
    /\ ui.loadingHidden
    /\ ~ui.generateBtnDisabled
    /\ \E i \in 1..Len(latestGeneratedImages) :
          latestGeneratedImages[i].url = FailedUrl

\* C31: a save that builds a record while a run is in flight, or after a
\* run that failed, and before the user changed anything, hands the store
\* the markup and CSS of the document the run started from together with
\* that document's image list and favicon.
C31_RecordOfOneDocument ==
    [][(SaveStep /\ preRun # NoDoc /\ setItemLog' # <<>>) =>
          /\ setItemLog'[1].html = preRun.html
          /\ setItemLog'[1].css = preRun.css
          /\ setItemLog'[1].images = preRun.images
          /\ setItemLog'[1].favicon = preRun.favicon]_vars

\* C32: at every moment of a run the item at position i of the refined
\* prompts carries the id of item i of the response, and once its call has
\* settled it carries the refinement of item i's own short prompt, or that
\* short prompt if the call failed; the published entry at position i
\* carries the same id and prompt.
C32_PromptsStayWithTheirIds ==
    /\ Len(improvedPrompts) = Len(websiteData.imagePrompts)
    /\ \A i \in 1..Len(improvedPrompts) :
          LET item == websiteData.imagePrompts[i]
              own == IF refineCall[i] = "ok" THEN RefinedText(item.prompt)
                     ELSE item.prompt
          IN  /\ improvedPrompts[i].id = item.id
              /\ improvedPrompts[i].prompt = own
              /\ runOutcome = "success" =>
                    /\ Len(latestGeneratedImages) = Len(improvedPrompts)
                    /\ latestGeneratedImages[i].id = item.id
                    /\ latestGeneratedImages[i].prompt = own

\* The refinement call of the second item has settled while the call of
\* the first is still in flight.
C32_Witness ==
    /\ pc = "refine"
    /\ Len(refineCall) >= 2
    /\ refineCall[1] = "inflight"
    /\ refineCall[2] = "ok"
    /\ improvedPrompts[2].id = websiteData.imagePrompts[2].id
    /\ improvedPrompts[2].prompt =
          RefinedText(websiteData.imagePrompts[2].prompt)
    /\ improvedPrompts[2].id # improvedPrompts[1].id

\* ------------------------------------------------------------------ the archive-path slice
\* Exports of restored documents, among them one whose placeholder ids
\* sanitize to the same file name, with typing in between.
InitPaths == InitMemory /\ store \in {EarlierRecord, CollidingRecord}

NextPaths ==
    \/ Load
    \/ EditStep
    \/ ExportStep

SpecPaths == InitPaths /\ [][NextPaths]_vars

\* C33: in a downloaded archive two images of the exported list with
\* different ids have different file paths, no image has the path of the
\* favicon file, and the file at the path of every image that has an
\* element holds that image's payload.
C33_DistinctPaths ==
    exportOutcome = "done" =>
        /\ \A i, j \in 1..Len(exportImages) :
              exportImages[i].id # exportImages[j].id =>
                 ExportPath(exportImages[i].id) # ExportPath(exportImages[j].id)
        /\ \A i \in 1..Len(exportImages) :
              /\ ExportPath(exportImages[i].id) # FaviconPath
              /\ (\E k \in 1..Len(download.indexHtml.imgs) :
                     download.indexHtml.imgs[k].id = exportImages[i].id) =>
                    [path |-> ExportPath(exportImages[i].id),
                     payload |-> exportImages[i].url] \in download.images

\* C34: a step of the export handler in which a fetch or generateAsync
\* rejects hands no archive to the browser and shows the export error; and
\* no step of the export handler, failing or not, changes the editors, the
\* image list, the favicon, the history or the cursor.
C34_FailedExportOffersNothing ==
    /\ [][(\/ ExportImageFetched("failed")
           \/ ExportFaviconFetched("failed")
           \/ ExportZipDone("failed")) =>
            /\ download' = download
            /\ alertMsg' = ExportErrorMsg
            /\ exportOutcome' = "failed"]_vars
    /\ [][ExportStep =>
            UNCHANGED <<htmlEditor, cssEditor, latestGeneratedImages,
                        latestFavicon, history, historyIndex>>]_vars

\* An export has failed after it had put files into its archive; nothing
\* was downloaded and the error is shown.
C34_Witness ==
    /\ exportOutcome = "failed"
    /\ alertMsg = ExportErrorMsg
    /\ zip.images # {}
    /\ download = NoZip
    /\ latestGeneratedImages # <<>>

\* C35: after an operation that rewrote an editor (a generation that
\* succeeded, undo, redo, the restore from the store, typing), the store
\* eventually holds a record whose html and css are the contents of the two
\* editors.
C35_StoreFollowsEditors ==
    (burst > 0) ~> (/\ store.present
                    /\ store.html = htmlEditor
                    /\ store.css = cssEditor)

====
